---- MODULE Spec2Model ----
(***************************************************************************)
(* A model of the xlbricks handle store: the XLBricksFrontStack table of   *)
(* XLBricksFront wrappers, the XLBrick / XLBricks value trees they hold,   *)
(* the range ingestion of XLUtils (crop_range, get_bricks_front,           *)
(* get_bricks) and the operations of xlfunctions.py as they are exposed    *)
(* by xlbfunctions.py.                                                     *)
(*                                                                         *)
(* Strings are sequences of one-character strings, so that split, join and *)
(* '%s:%s' formatting are computed as the code computes them.              *)
(***************************************************************************)
EXTENDS Integers, Sequences, FiniteSets, TLC

(***************************************************************************)
(* Bounds                                                                  *)
(***************************************************************************)
\* wrappers (XLBricksFront objects) constructed in one behaviour
MaxFronts == 2
\* XLBrick / XLBricks objects alive at one time
MaxNodes == 3

(***************************************************************************)
(* Strings                                                                 *)
(***************************************************************************)
\* Python's None where a string is expected
NoneStr == <<"None">>

Digit == <<"0", "1", "2", "3", "4", "5", "6", "7", "8", "9">>

IsDigit(c) == \E i \in 1..10 : Digit[i] = c

DigitValue(c) == (CHOOSE i \in 1..10 : Digit[i] = c) - 1

RECURSIVE ToStr(_)
\* '%s' % n for a non-negative integer n
ToStr(n) == IF n < 10 THEN <<Digit[n + 1]>>
            ELSE ToStr(n \div 10) \o <<Digit[(n % 10) + 1]>>

RECURSIVE Split(_, _)
\* str.split(sep) for a one-character separator
Split(s, sep) ==
    IF \A i \in 1..Len(s) : s[i] # sep THEN <<s>>
    ELSE LET At(i) == <<SubSeq(s, 1, i - 1)>> \o Split(SubSeq(s, i + 1, Len(s)), sep)
         IN  At(CHOOSE j \in 1..Len(s) : s[j] = sep /\ \A k \in 1..(j - 1) : s[k] # sep)

RECURSIVE Join(_, _)
\* sep.join(parts)
Join(parts, sep) ==
    IF Len(parts) = 0 THEN <<>>
    ELSE IF Len(parts) = 1 THEN parts[1]
    ELSE parts[1] \o sep \o Join(Tail(parts), sep)

RECURSIVE Strip(_)
\* str.strip(' \t\n\r'); the blank is the only whitespace of the alphabet
Strip(s) ==
    IF Len(s) = 0 THEN s
    ELSE IF s[1] = " " THEN Strip(Tail(s))
    ELSE IF s[Len(s)] = " " THEN Strip(SubSeq(s, 1, Len(s) - 1))
    ELSE s

Contains(s, c) == \E i \in 1..Len(s) : s[i] = c

NanStr == <<"n", "a", "n">>

(***************************************************************************)
(* Cells and blocks (numpy arrays handed over by the caller)               *)
(***************************************************************************)
StrCell(s) == [t |-> "str", s |-> s, n |-> 0]
NumCell(n) == [t |-> "num", s |-> <<>>, n |-> n]
\* IEEE NaN
NanCell == [t |-> "nan", s |-> <<>>, n |-> 0]
\* None in an object array
NoneCell == [t |-> "none", s |-> <<>>, n |-> 0]

\* a block: dtype is "str" (np.str_), "object" (np.object_) or "float";
\* cells is the sequence of rows; ndim is the number of dimensions
Block(dtype, cells) == [dtype |-> dtype, ndim |-> 2, cells |-> cells]

\* the caller passed None
NoneBlock == [dtype |-> "none", ndim |-> 0, cells |-> <<>>]

Rows(b) == Len(b.cells)
Cols(b) == IF Len(b.cells) = 0 THEN 0 ELSE Len(b.cells[1])
Size(b) == Rows(b) * Cols(b)

DelRow(b, r) ==
    [b EXCEPT !.cells = [i \in 1..(Len(b.cells) - 1) |->
                            IF i < r THEN b.cells[i] ELSE b.cells[i + 1]]]

DelCol(b, c) ==
    [b EXCEPT !.cells = [i \in 1..Len(b.cells) |->
                            [j \in 1..(Len(b.cells[i]) - 1) |->
                                IF j < c THEN b.cells[i][j] ELSE b.cells[i][j + 1]]]]

\* the empty-cell test crop_range selects by dtype
func_isnan(dtype, cell) ==
    IF dtype = "str" THEN cell.t = "str" /\ cell.s = NanStr
    ELSE IF dtype = "object" THEN cell.t \in {"nan", "none"}
    ELSE cell.t = "nan"

RowAllNan(b, r) == \A j \in 1..Cols(b) : func_isnan(b.dtype, b.cells[r][j])
ColAllNan(b, c) == \A i \in 1..Rows(b) : func_isnan(b.dtype, b.cells[i][c])

\* result of a step that can raise: err is TRUE with the exception's type
CropOk(b) == [err |-> FALSE, etype |-> "", data |-> b]
CropErr(b) == [err |-> TRUE, etype |-> "IndexError", data |-> b]

RECURSIVE CropTop(_)
\* while func_isnan(data[0, :]).all(): delete row 0
CropTop(b) ==
    IF Rows(b) = 0 THEN CropErr(b)
    ELSE IF RowAllNan(b, 1) THEN CropTop(DelRow(b, 1))
    ELSE CropOk(b)

RECURSIVE CropLeft(_)
\* while func_isnan(data[:, 0]).all(): delete column 0
CropLeft(b) ==
    IF Cols(b) = 0 THEN CropErr(b)
    ELSE IF ColAllNan(b, 1) THEN CropLeft(DelCol(b, 1))
    ELSE CropOk(b)

RECURSIVE CropBottom(_, _)
\* row_idx = rows - 1; while row_idx > 0 and the row is empty: delete it
CropBottom(b, row_idx) ==
    IF row_idx > 0 /\ RowAllNan(b, row_idx + 1)
    THEN CropBottom(DelRow(b, row_idx + 1), row_idx - 1)
    ELSE b

RECURSIVE CropRight(_, _)
\* col_idx = cols - 1; while col_idx > 0 and the column is empty: delete it
CropRight(b, col_idx) ==
    IF col_idx > 0 /\ ColAllNan(b, col_idx + 1)
    THEN CropRight(DelCol(b, col_idx + 1), col_idx - 1)
    ELSE b

\* a crop that trims the top rows and the left columns only
_crop_range_top_left(b) ==
    LET Left(t) == IF t.err THEN t ELSE CropLeft(t.data)
    IN  Left(CropTop(b))

\* the four loops of _crop_range in turn: top, left, bottom, right
_crop_range(b) ==
    LET Right(bt) == CropOk(CropRight(bt, Cols(bt) - 1))
        Bottom(l) == IF l.err THEN l
                     ELSE Right(CropBottom(l.data, Rows(l.data) - 1))
        Left(t) == IF t.err THEN t ELSE Bottom(CropLeft(t.data))
    IN  Left(CropTop(b))

crop_range(b) == _crop_range(b)

\* a classification that looks at data[0, 0] and not at the shape
is_bricks_front_name_first_cell(b) ==
    /\ Rows(b) >= 1
    /\ Cols(b) >= 1
    /\ b.cells[1][1].t = "str"
    /\ Contains(b.cells[1][1].s, ":")

\* XLUtils.is_bricks_front_name
is_bricks_front_name(b) ==
    /\ Rows(b) = 1
    /\ Cols(b) = 1
    /\ b.cells[1][1].t = "str"
    /\ Contains(b.cells[1][1].s, ":")

\* key = ''.join(data[0, 0].split(':')[:-1])
RefKey(s) ==
    LET AllButLast(parts) == Join(SubSeq(parts, 1, Len(parts) - 1), <<>>)
    IN  AllButLast(Split(s, ":"))


\* a float NaN passed where a scalar is expected
NanFloat == <<"NaN">>

\* validation._ERROR_PREFIX; a message is the sequence of its formatted pieces
_ERROR_PREFIX == "#XLB ERROR: "

\* str.lower over the letters of the alphabet
Lower(c) ==
    LET upper == <<"A", "B", "E", "F", "L", "N", "R", "S", "T", "U">>
        lower == <<"a", "b", "e", "f", "l", "n", "r", "s", "t", "u">>
    IN  IF \E i \in 1..Len(upper) : upper[i] = c
        THEN lower[CHOOSE i \in 1..Len(upper) : upper[i] = c]
        ELSE c

\* _is_missing for a scalar argument: None, a float NaN, blank or 'nan'
_is_missing(val) ==
    \/ val = NoneStr
    \/ val = NanFloat
    \/ Len(Strip(val)) = 0
    \/ [i \in 1..Len(Strip(val)) |-> Lower(Strip(val)[i])] = NanStr

\* _check_required: the error message, or None when the argument is accepted
_check_required(name, val) ==
    IF _is_missing(val)
    THEN <<_ERROR_PREFIX, name, " is required and cannot be empty.">>
    ELSE NoneStr

\* a check that accepts a block without cells
_check_array_2d_any_size(name, val) ==
    IF val = NoneBlock THEN <<_ERROR_PREFIX, name, " is required.">>
    ELSE IF val.ndim # 2 THEN <<_ERROR_PREFIX, name, " must be a 2D range (array).">>
    ELSE NoneStr

\* _check_array_2d (required=True): the error message, or None
_check_array_2d(name, val) ==
    IF val = NoneBlock THEN <<_ERROR_PREFIX, name, " is required.">>
    ELSE IF val.ndim # 2 THEN <<_ERROR_PREFIX, name, " must be a 2D range (array).">>
    ELSE IF Size(val) = 0 THEN <<_ERROR_PREFIX, name, " cannot be empty.">>
    ELSE NoneStr

(***************************************************************************)
(* pd.DataFrame(data).apply(pd.to_numeric, errors='ignore').values         *)
(***************************************************************************)
IsNumStr(s) == Len(s) > 0 /\ \A i \in 1..Len(s) : IsDigit(s[i])

RECURSIVE ParseNat(_)
ParseNat(s) == IF Len(s) = 0 THEN 0
               ELSE 10 * ParseNat(SubSeq(s, 1, Len(s) - 1)) + DigitValue(s[Len(s)])

ColNumeric(b, j) ==
    \A i \in 1..Rows(b) :
        /\ b.cells[i][j].t = "str"
        /\ (IsNumStr(b.cells[i][j].s) \/ b.cells[i][j].s = NanStr)

ToNumeric(b) ==
    [dtype |-> IF \A j \in 1..Cols(b) : ColNumeric(b, j) THEN "float" ELSE "object",
     ndim  |-> b.ndim,
     cells |-> [i \in 1..Rows(b) |-> [j \in 1..Cols(b) |->
                  IF ColNumeric(b, j)
                  THEN IF b.cells[i][j].s = NanStr THEN NanCell
                       ELSE NumCell(ParseNat(b.cells[i][j].s))
                  ELSE b.cells[i][j]]]]

(***************************************************************************)
(* Value trees: XLBrick (leaf) and XLBricks (composite) objects on a heap. *)
(* A node is referred to by its index in the heap; 0 is Python's None.     *)
(***************************************************************************)
None == 0

\* XLBrick(key, value)
XLBrick(key, value) ==
    [kind |-> "XLBrick", key |-> key, value |-> value, bricks |-> <<>>]

\* XLBricks(key, bricks); bricks is the OrderedDict as a sequence of entries
XLBricks(key, bricks) ==
    [kind |-> "XLBricks", key |-> key, value |-> NoneBlock, bricks |-> bricks]

\* a heap slot whose object has been reclaimed
FreeNode == [kind |-> "free", key |-> NoneStr, value |-> NoneBlock, bricks |-> <<>>]

\* the index a newly constructed object gets: the first free slot
NewId(hp) ==
    IF \E i \in 1..Len(hp) : hp[i] = FreeNode
    THEN CHOOSE i \in 1..Len(hp) : hp[i] = FreeNode /\ \A j \in 1..(i - 1) : hp[j] # FreeNode
    ELSE Len(hp) + 1

New(hp, node) ==
    IF NewId(hp) <= Len(hp) THEN [hp EXCEPT ![NewId(hp)] = node] ELSE Append(hp, node)

ChildIds(node) == {node.bricks[i].id : i \in 1..Len(node.bricks)} \ {0}

RECURSIVE Reach(_, _)
\* the objects reachable from the objects in `ids`
Reach(hp, ids) ==
    LET Grow(more) == IF more = ids THEN ids ELSE Reach(hp, more)
    IN  Grow(ids \cup UNION {ChildIds(hp[i]) : i \in ids})

RECURSIVE TrimFree(_)
TrimFree(hp) ==
    IF Len(hp) > 0 /\ hp[Len(hp)] = FreeNode THEN TrimFree(SubSeq(hp, 1, Len(hp) - 1))
    ELSE hp

\* reference counting: objects not reachable from `roots` are reclaimed
Reclaim(hp, roots) ==
    LET Keep(live) ==
            TrimFree([i \in 1..Len(hp) |-> IF i \in live THEN hp[i] ELSE FreeNode])
    IN  Keep(Reach(hp, roots \ {0}))

HasKey(bricks, k) == \E i \in 1..Len(bricks) : bricks[i].k = k

Child(bricks, k) == bricks[CHOOSE i \in 1..Len(bricks) : bricks[i].k = k].id

\* OrderedDict.__setitem__: an existing key keeps its position
Put(bricks, k, id) ==
    IF HasKey(bricks, k)
    THEN [i \in 1..Len(bricks) |-> IF bricks[i].k = k THEN [k |-> k, id |-> id]
                                    ELSE bricks[i]]
    ELSE Append(bricks, [k |-> k, id |-> id])

RECURSIVE Update(_, _)
\* an update that keeps the entries the mapping already has
UpdateKeepFirst(bricks, other) ==
    LET Absent(e) == ~HasKey(bricks, e.k)
    IN  bricks \o SelectSeq(other, Absent)

\* OrderedDict.update(other)
Update(bricks, other) ==
    IF Len(other) = 0 THEN bricks
    ELSE Update(Put(bricks, other[1].k, other[1].id), Tail(other))

(***************************************************************************)
(* XLBricksFront wrappers and the XLBricksFrontStack table                 *)
(***************************************************************************)
\* str(uuid.uuid1()) of the n-th wrapper constructed
UuidOf(n) == <<"u">> \o ToStr(n)

XLBricksFront(alias, xlbricks, persist, n) ==
    [counter |-> 0, alias |-> alias, xlbricks |-> xlbricks,
     persist |-> persist, uuid |-> UuidOf(n)]

\* stands for "no wrapper" (None) where a wrapper record is expected
NoFront == [counter |-> 0, alias |-> NoneStr, xlbricks |-> None,
            persist |-> FALSE, uuid |-> NoneStr]

bricks_name(w) == IF w.persist THEN w.alias ELSE w.uuid

bricks_full_name(w) == bricks_name(w) \o <<":">> \o ToStr(w.counter)

\* front_stack = dict()
EmptyStack == [n \in {} |-> NoFront]

\* XLBricksFrontStack.__contains__
StackContains(stack, item) == item \in DOMAIN stack

\* XLBricksFrontStack.__setitem__
StackSet(stack, key, value) ==
    [n \in (DOMAIN stack) \cup {key} |-> IF n = key THEN value ELSE stack[n]]

\* XLBricksFrontStack.__delitem__ (the caller has checked that item is a key)
StackDel(stack, item) == [n \in (DOMAIN stack) \ {item} |-> stack[n]]

\* a registration that keeps the counter the wrapper was constructed with
NextCounterSame(stack, w) == w.counter

\* the version add_bricks_to_front_stack gives to a wrapper
NextCounter(stack, w) ==
    IF StackContains(stack, bricks_name(w))
    THEN stack[bricks_name(w)].counter + 1
    ELSE w.counter

Versioned(stack, w) == [w EXCEPT !.counter = NextCounter(stack, w)]

add_bricks_to_front_stack(stack, w) ==
    StackSet(stack, bricks_name(w), Versioned(stack, w))

delete_bricks_from_front_stack(stack, w) ==
    IF ~w.persist /\ StackContains(stack, bricks_name(w))
    THEN StackDel(stack, bricks_name(w))
    ELSE stack

(***************************************************************************)
(* Ingestion                                                               *)
(***************************************************************************)
\* XLUtils.get_bricks_front: isref is the classification, key the name that
\* is looked up in the table (read is TRUE when the table is read), found is
\* FALSE when the result is None
get_bricks_front(stack, data) ==
    IF is_bricks_front_name(data)
    THEN LET Lookup(key) ==
                 [isref |-> TRUE, read |-> TRUE, key |-> key,
                  found |-> StackContains(stack, key),
                  front |-> IF StackContains(stack, key) THEN stack[key] ELSE NoFront]
         IN  Lookup(RefKey(data.cells[1][1].s))
    ELSE [isref |-> FALSE, read |-> FALSE, key |-> NoneStr,
          found |-> FALSE, front |-> NoFront]

\* the record of one call of XLUtils.get_bricks: its argument, the cropped
\* block, what get_bricks_front did, the table before and after, the node
\* returned and, when a new XLBrick was made from the data, its value
GetBricksCall(data, cropped, f, pre, post, node, leaf, err) ==
    [data |-> data, cropped |-> cropped, isref |-> f.isref, read |-> f.read,
     key |-> f.key, found |-> f.found, front |-> f.front, pre |-> pre,
     post |-> post, node |-> node, leaf |-> leaf, err |-> err]

NotResolved == [isref |-> FALSE, read |-> FALSE, key |-> NoneStr,
                found |-> FALSE, front |-> NoFront]

\* XLUtils.get_bricks on the table `stack` and the heap `hp`
get_bricks(stack, hp, data) ==
    LET \* return XLBrick(None, data)
        Leaf(c, f, value) ==
            [err |-> FALSE, etype |-> "", stack |-> stack,
             heap |-> New(hp, XLBrick(NoneStr, value)), node |-> NewId(hp),
             call |-> GetBricksCall(data, c.data, f, stack, stack, NewId(hp),
                                    value, FALSE)]
        \* delete_bricks_from_front_stack(bricks_front); return its xlbricks
        Fetched(c, f, post) ==
            [err |-> FALSE, etype |-> "", stack |-> post, heap |-> hp,
             node |-> f.front.xlbricks,
             call |-> GetBricksCall(data, c.data, f, stack, post,
                                    f.front.xlbricks, NoneBlock, FALSE)]
        Resolved(c, f) ==
            IF ~f.found
            THEN Leaf(c, f, IF c.data.dtype = "str" THEN ToNumeric(c.data)
                            ELSE c.data)
            ELSE Fetched(c, f, delete_bricks_from_front_stack(stack, f.front))
        Cropped(c) ==
            IF c.err
            THEN [err |-> TRUE, etype |-> c.etype, stack |-> stack, heap |-> hp,
                  node |-> None,
                  call |-> GetBricksCall(data, c.data, NotResolved, stack, stack,
                                         None, NoneBlock, TRUE)]
            ELSE Resolved(c, get_bricks_front(stack, c.data))
    IN  Cropped(crop_range(data))

(***************************************************************************)
(* Results of the core functions of xlfunctions.py.  A core function       *)
(* either raises (err, with the exception's type) or returns `out`: an     *)
(* XLBricksFront or a raw value.  stack and heap are the table and the     *)
(* heap as the function leaves them; calls are its get_bricks calls.       *)
(***************************************************************************)
NoOut == [kind |-> "none", front |-> NoFront, value |-> NoneBlock]
FrontOut(w) == [kind |-> "front", front |-> w, value |-> NoneBlock]
RawOut(v) == [kind |-> "raw", front |-> NoFront, value |-> v]

Ok(stack, hp, calls, out) ==
    [err |-> FALSE, etype |-> "", stack |-> stack, heap |-> hp,
     calls |-> calls, out |-> out]

Raise(etype, stack, hp, calls) ==
    [err |-> TRUE, etype |-> etype, stack |-> stack, heap |-> hp,
     calls |-> calls, out |-> NoOut]

\* XLUtils.active_cell_address: xlapp is the caller's address, NoneStr when
\* no application object was passed (None has no attribute Caller)
active_cell_address(xlapp) ==
    IF xlapp = NoneStr THEN [err |-> TRUE, etype |-> "AttributeError", address |-> NoneStr]
    ELSE [err |-> FALSE, etype |-> "", address |-> xlapp]

\* create_bricks_front, constructing the n-th wrapper
create_bricks_front(xlbricks, xlapp, persist, n) ==
    LET At(a) == [err |-> a.err, etype |-> a.etype,
                  front |-> IF a.err THEN NoFront
                            ELSE XLBricksFront(a.address, xlbricks, persist, n)]
    IN  IF persist
        THEN At(active_cell_address(xlapp))
        ELSE [err |-> FALSE, etype |-> "",
              front |-> XLBricksFront(NoneStr, xlbricks, persist, n)]

\* the common tail of the producing functions: wrap `node` and return
Produce(stack, hp, calls, node, xlapp, persist, n) ==
    LET Wrapped(c) == IF c.err THEN Raise(c.etype, stack, hp, calls)
                      ELSE Ok(stack, hp, calls, FrontOut(c.front))
    IN  Wrapped(create_bricks_front(node, xlapp, persist, n))

array_create(stack, hp, n, data, persist, xlapp) ==
    LET With(g) ==
            IF g.err THEN Raise(g.etype, g.stack, g.heap, <<g.call>>)
            ELSE Produce(g.stack, g.heap, <<g.call>>, g.node, xlapp, persist, n)
    IN  With(get_bricks(stack, hp, data))

xlbrick_create(stack, hp, n, key, data, persist, xlapp) ==
    LET With(g) ==
            IF g.err THEN Raise(g.etype, g.stack, g.heap, <<g.call>>)
            ELSE Produce(g.stack,
                         New(g.heap, XLBricks(NoneStr, <<[k |-> key, id |-> g.node]>>)),
                         <<g.call>>, NewId(g.heap), xlapp, persist, n)
    IN  With(get_bricks(stack, hp, data))

RECURSIVE KeysFrom(_, _)
\* the rows from r on whose first cell is not empty, in order
KeysFrom(data, r) ==
    IF r > Rows(data) THEN <<>>
    ELSE (IF func_isnan(data.dtype, data.cells[r][1]) THEN <<>> ELSE <<r>>)
         \o KeysFrom(data, r + 1)

\* keys_idx = np.argwhere(<column 0 is not empty>).flatten(); rows count from 1
KeysIdx(data) == KeysFrom(data, 1)

\* data[f_idx:s_idx, 1:] with f_idx and s_idx counted from 1
SubBlock(data, f_idx, s_idx) ==
    Block(data.dtype, [i \in 1..(s_idx - f_idx) |->
                          [j \in 1..(Cols(data) - 1) |-> data.cells[f_idx + i - 1][j + 1]]])

\* data[f_idx, 0] as a dictionary key; the key cells passed are strings
CellKey(data, f_idx) == data.cells[f_idx][1].s

RECURSIVE GridLoop(_, _, _, _, _, _, _)
\* for f_idx, s_idx in zip(keys_idx, keys_idx[1:]), from the j-th pair on
GridLoop(stack, hp, calls, bricks, data, keys_idx, j) ==
    LET With(g) ==
            IF g.err
            THEN [err |-> TRUE, etype |-> g.etype, stack |-> g.stack, heap |-> g.heap,
                  calls |-> Append(calls, g.call), bricks |-> bricks]
            ELSE GridLoop(g.stack, g.heap, Append(calls, g.call),
                          Put(bricks, CellKey(data, keys_idx[j]), g.node),
                          data, keys_idx, j + 1)
    IN  IF j + 1 > Len(keys_idx)
        THEN [err |-> FALSE, etype |-> "", stack |-> stack, heap |-> hp,
              calls |-> calls, bricks |-> bricks]
        ELSE With(get_bricks(stack, hp, SubBlock(data, keys_idx[j], keys_idx[j + 1])))

\* grid_create: s_idx is bound by the loop only, so the statement after the
\* loop raises UnboundLocalError when there are fewer than two key rows
grid_create(stack, hp, n, data, persist, xlapp) ==
    LET Last(l, g) ==
            IF g.err THEN Raise(g.etype, g.stack, g.heap, Append(l.calls, g.call))
            ELSE Produce(g.stack,
                         New(g.heap, XLBricks(NoneStr,
                                 Put(l.bricks, CellKey(data, KeysIdx(data)[Len(KeysIdx(data))]),
                                     g.node))),
                         Append(l.calls, g.call), NewId(g.heap), xlapp, persist, n)
        With(l, keys_idx) ==
            IF l.err THEN Raise(l.etype, l.stack, l.heap, l.calls)
            ELSE IF Len(keys_idx) < 2
            THEN Raise("UnboundLocalError", l.stack, l.heap, l.calls)
            ELSE Last(l, get_bricks(l.stack, l.heap,
                                    SubBlock(data, keys_idx[Len(keys_idx)], Rows(data) + 1)))
    IN  With(GridLoop(stack, hp, <<>>, <<>>, data, KeysIdx(data), 1), KeysIdx(data))

\* ndarray.flatten().tolist()
RECURSIVE Flatten(_)
Flatten(cells) == IF Len(cells) = 0 THEN <<>> ELSE cells[1] \o Flatten(Tail(cells))

\* the value list_create stores: a list is dtype "list", ndim its nesting
ListValue(value) ==
    IF value.dtype # "list"
    THEN [dtype |-> "list", ndim |-> 1, cells |-> <<Flatten(value.cells)>>]
    ELSE [dtype |-> "list", ndim |-> value.ndim + 1, cells |-> value.cells]

list_create(stack, hp, n, data, persist, xlapp) ==
    LET With(g) ==
            IF g.err THEN Raise(g.etype, g.stack, g.heap, <<g.call>>)
            ELSE IF g.node = None \/ g.heap[g.node].kind # "XLBrick"
            THEN Raise("AttributeError", g.stack, g.heap, <<g.call>>)
            ELSE Produce(g.stack, [g.heap EXCEPT ![g.node].value = ListValue(@)],
                         <<g.call>>, g.node, xlapp, persist, n)
    IN  With(get_bricks(stack, hp, data))

RECURSIVE Walk(_, _, _)
\* the loop of XLBricks.__getitem__: node = node.bricks[key]
Walk(hp, node, keys) ==
    IF Len(keys) = 0 THEN [err |-> FALSE, etype |-> "", node |-> node]
    ELSE IF node = None \/ hp[node].kind # "XLBricks"
    THEN [err |-> TRUE, etype |-> "AttributeError", node |-> None]
    ELSE IF ~HasKey(hp[node].bricks, keys[1])
    THEN [err |-> TRUE, etype |-> "KeyError", node |-> None]
    ELSE Walk(hp, Child(hp[node].bricks, keys[1]), Tail(keys))

\* node[keys]: XLBricks.__getitem__, XLBrick.__getitem__ (returns None) or
\* a subscript of None
GetItem(hp, node, keys) ==
    IF node = None THEN [err |-> TRUE, etype |-> "TypeError", node |-> None]
    ELSE IF hp[node].kind = "XLBrick" THEN [err |-> FALSE, etype |-> "", node |-> None]
    ELSE Walk(hp, node, keys)

\* _func_line_sanitize: '' for None, NaN, blank and 'nan' cells
\* (the cells of the blocks of code are strings or None)
_func_line_sanitize(cell) ==
    IF cell.t # "str" THEN <<>>
    ELSE IF Len(Strip(cell.s)) = 0 THEN <<>>
    ELSE IF [i \in 1..Len(Strip(cell.s)) |-> Lower(Strip(cell.s)[i])] = NanStr THEN <<>>
    ELSE cell.s

\* first_char = line.split(' ')[0] if line else ''
FirstWord(line) == IF Len(line) = 0 THEN <<>> ELSE Split(line, " ")[1]

\* funcs_mask: the line starts a segment
FuncsMask(line) ==
    FirstWord(line) \in {<<"f", "r", "o", "m">>, <<"i", "m", "p", "o", "r", "t">>,
                         <<"d", "e", "f">>}

RECURSIVE FuncsSplit(_, _)
\* np.array_split(funcs[:, 0], np.argwhere(funcs_mask).flatten())[1:] with
\* the lines sanitized: `segs` is extended by the lines that follow
FuncsSplit(lines, segs) ==
    IF Len(lines) = 0 THEN segs
    ELSE IF FuncsMask(lines[1]) THEN FuncsSplit(Tail(lines), Append(segs, <<lines[1]>>))
    ELSE IF Len(segs) = 0 THEN FuncsSplit(Tail(lines), segs)
    ELSE FuncsSplit(Tail(lines),
                    [segs EXCEPT ![Len(segs)] = Append(segs[Len(segs)], lines[1])])

\* _ensure_block_has_body on the lines of a segment: a segment whose last
\* non-blank line ends with ':' gets the line '    pass'
_ensure_block_has_body(seg) ==
    LET Ends(filled) ==
            /\ filled # {}
            /\ LET last == Strip(seg[CHOOSE i \in filled : \A j \in filled : j <= i])
               IN  last[Len(last)] = ":"
    IN  IF Ends({i \in 1..Len(seg) : Len(Strip(seg[i])) > 0})
        THEN Append(seg, <<" ", " ", " ", " ", "p", "a", "s", "s">>)
        ELSE seg

\* values that are not blocks: a function object (cells holds what calling
\* it returns), a module and the dictionary of the built-in names
Callable(returns) ==
    [dtype |-> "function", ndim |-> 0, cells |-> <<<<returns>>>>,
     params |-> <<>>, raises |-> "", log |-> <<>>]
Module == [dtype |-> "module", ndim |-> 0, cells |-> <<>>]
Builtins == [dtype |-> "dict", ndim |-> 0, cells |-> <<>>]

\* what a function with the body lines `body` returns: the number of its
\* first return statement, None without one
RECURSIVE ReturnOf(_)
ReturnOf(body) ==
    IF Len(body) = 0 THEN NoneCell
    ELSE IF FirstWord(Strip(body[1])) = <<"r", "e", "t", "u", "r", "n">>
    THEN NumCell(ParseNat(Split(Strip(body[1]), " ")[2]))
    ELSE ReturnOf(Tail(body))

\* exec(func, res): the globals dictionary gets the key '__builtins__'
\* before the segment runs; a def binds its name to a function, an import
\* its module, and an indented line after an import is a syntax error.
\* A dictionary is a sequence of entries [k, id], id being the value here
Exec(seg, ns) ==
    LET Run(globals, name) ==
            IF FirstWord(seg[1]) = <<"d", "e", "f">>
                  /\ \A i \in 2..Len(seg) : Len(seg[i]) = 0
            THEN [err |-> TRUE, etype |-> "IndentationError", ns |-> globals]
            ELSE IF FirstWord(seg[1]) = <<"d", "e", "f">>
            THEN [err |-> FALSE, etype |-> "",
                  ns |-> Put(globals, Split(name, "(")[1],
                             Callable(ReturnOf(Tail(seg))))]
            ELSE IF \E i \in 2..Len(seg) : Len(seg[i]) > 0
            THEN [err |-> TRUE, etype |-> "IndentationError", ns |-> globals]
            ELSE [err |-> FALSE, etype |-> "", ns |-> Put(globals, name, Module)]
    IN  Run(IF HasKey(ns, <<"_", "_", "b", "u", "i", "l", "t", "i", "n", "s", "_", "_">>)
            THEN ns
            ELSE Put(ns, <<"_", "_", "b", "u", "i", "l", "t", "i", "n", "s", "_", "_">>,
                     Builtins),
            Split(seg[1], " ")[2])

RECURSIVE ExecAll(_, _)
\* [exec(func, res) for func in funcs_split]
ExecAll(segs, e) ==
    IF e.err \/ Len(segs) = 0 THEN e
    ELSE ExecAll(Tail(segs), Exec(_ensure_block_has_body(segs[1]), e.ns))

RECURSIVE Leaves(_, _, _)
\* {k: XLBrick(None, v) for k, v in res.items()}: the heap with the leaves
\* and the entries that name them
Leaves(hp, ns, bricks) ==
    IF Len(ns) = 0 THEN [heap |-> hp, bricks |-> bricks]
    ELSE Leaves(New(hp, XLBrick(NoneStr, ns[1].id)), Tail(ns),
                Append(bricks, [k |-> ns[1].k, id |-> NewId(hp)]))

create_function_objects(stack, hp, n, funcs, persist, xlapp) ==
    LET Made(g, l) ==
            Produce(g.stack, New(l.heap, XLBricks(NoneStr, l.bricks)), <<g.call>>,
                    NewId(l.heap), xlapp, persist, n)
        Ran(g, e) ==
            IF e.err THEN Raise(e.etype, g.stack, g.heap, <<g.call>>)
            ELSE Made(g, Leaves(g.heap, e.ns, <<>>))
        Lines(g, value) ==
            Ran(g, ExecAll(FuncsSplit([i \in 1..Rows(value) |->
                                          _func_line_sanitize(value.cells[i][1])], <<>>),
                           [err |-> FALSE, etype |-> "", ns |-> <<>>]))
        With(g) ==
            IF g.err THEN Raise(g.etype, g.stack, g.heap, <<g.call>>)
            ELSE IF g.node = None \/ g.heap[g.node].kind # "XLBrick"
            THEN Raise("AttributeError", g.stack, g.heap, <<g.call>>)
            ELSE Lines(g, g.heap[g.node].value)
    IN  With(get_bricks(stack, hp, funcs))

\* Python objects a function returns: a number, None (NumCell, NoneCell), a
\* dict as the sequence of its items [k, v], a list and a tuple
PyDict(items) == [t |-> "dict", s |-> <<>>, n |-> 0, items |-> items]
PyList(items) == [t |-> "list", s |-> <<>>, n |-> 0, items |-> items]
PyTuple(items) == [t |-> "tuple", s |-> <<>>, n |-> 0, items |-> items]
PyArray(value) == [t |-> "array", s |-> <<>>, n |-> 0, items |-> value]

\* bool(v)
Truthy(v) ==
    CASE v.t = "none" -> FALSE
      [] v.t = "num" -> v.n # 0
      [] v.t = "str" -> Len(v.s) > 0
      [] OTHER -> Len(v.items) > 0

\* the value attribute that holds the object v, and the object a value
\* attribute holds
ValueOf(v) == IF v.t = "none" THEN NoneBlock
              ELSE [dtype |-> "scalar", ndim |-> 0, cells |-> <<<<v>>>>]
PyOf(value) == IF value = NoneBlock THEN NoneCell
               ELSE IF value.dtype = "scalar" THEN value.cells[1][1]
               ELSE PyArray(value)

\* XLBricks.__init__(key, bricks) given an object that is no dictionary of
\* bricks: self.bricks = bricks or OrderedDict(). The object bound to
\* self.bricks is kept in the field value
XLBricksOf(key, obj) ==
    IF Truthy(obj)
    THEN [kind |-> "XLBricks", key |-> key, value |-> ValueOf(obj), bricks |-> <<>>]
    ELSE XLBricks(key, <<>>)

RECURSIVE to_dict(_, _)
RECURSIVE ToDictItems(_, _, _)
\* XLBricks.to_dict and XLBrick.to_dict of the node id: an object that is
\* no dictionary of bricks has no items() (or items that have no to_dict)
to_dict(hp, id) ==
    LET Keyed(key, v) == IF key = NoneStr THEN v ELSE PyDict(<<[k |-> key, v |-> v]>>)
        Children(key, c) == IF c.err THEN c
                            ELSE [err |-> FALSE, etype |-> "", v |-> Keyed(key, PyDict(c.items))]
    IN  IF id = None THEN [err |-> TRUE, etype |-> "AttributeError", v |-> NoneCell]
        ELSE IF hp[id].kind = "XLBrick"
        THEN [err |-> FALSE, etype |-> "", v |-> Keyed(hp[id].key, PyOf(hp[id].value))]
        ELSE IF hp[id].value # NoneBlock
        THEN [err |-> TRUE, etype |-> "AttributeError", v |-> NoneCell]
        ELSE Children(hp[id].key, ToDictItems(hp, hp[id].bricks, <<>>))

\* for key, qd_item in self.bricks.items(): child_dict[key] = qd_item.to_dict()
ToDictItems(hp, bricks, items) ==
    IF Len(bricks) = 0 THEN [err |-> FALSE, etype |-> "", items |-> items]
    ELSE LET Item(d) == IF d.err THEN [err |-> TRUE, etype |-> d.etype, items |-> items]
                        ELSE ToDictItems(hp, Tail(bricks),
                                         Append(items, [k |-> bricks[1].k, v |-> d.v]))
         IN  Item(to_dict(hp, bricks[1].id))

\* a Python bool
BoolCell(b) == [t |-> "bool", s |-> <<>>, n |-> IF b THEN 1 ELSE 0]

\* _cast_quantlib_variable for a number or a string that does not start
\* with 'ql.': a float with an integral value becomes the int of the same
\* value, and 'true' or 'false' in any case becomes bool(x), which is True
\* for every non-empty string
_cast_quantlib_variable(x) ==
    IF x.t = "str" /\ [i \in 1..Len(x.s) |-> Lower(x.s[i])]
                          \in {<<"t", "r", "u", "e">>, <<"f", "a", "l", "s", "e">>}
    THEN BoolCell(Len(x.s) > 0)
    ELSE x

\* f(key).item() for a key; None is no string and stays None
CastKey(key) ==
    IF key = NoneStr THEN NoneCell ELSE _cast_quantlib_variable(StrCell(key))

RECURSIVE to_quantlib_dict(_, _, _)
RECURSIVE QuantlibItems(_, _, _, _)
\* XLBricks.to_quantlib_dict and XLBrick.to_quantlib_dict of the node id,
\* for blocks whose cast cells are of one type. aliases says whether the
\* numpy installed still has np.float and np.str (removed in 1.24); the
\* keys of the mapping returned are objects, so an item is [k, v] with k a
\* cell. The heap is returned as the call leaves it
to_quantlib_dict(hp, id, aliases) ==
    LET Fails(etype) == [err |-> TRUE, etype |-> etype, v |-> NoneCell, heap |-> hp]
        Gives(v) == [err |-> FALSE, etype |-> "", v |-> v, heap |-> hp]
        Keyed(key, v) == IF key = NoneStr THEN v
                         ELSE PyDict(<<[k |-> CastKey(key), v |-> v]>>)
        \* f(self.value), then the (1, 1) case or tolist()
        Cast(key, cells) ==
            IF Len(cells) = 1 /\ Len(cells[1]) = 1
            THEN IF aliases THEN Gives(Keyed(key, cells[1][1]))
                 ELSE Fails("AttributeError")
            ELSE Gives(Keyed(key, PyList([i \in 1..Len(cells) |-> PyList(cells[i])])))
        Children(key, c) == IF c.err THEN Fails(c.etype)
                            ELSE Gives(Keyed(key, PyDict(c.items)))
    IN  IF id = None THEN Fails("AttributeError")
        ELSE IF hp[id].kind = "XLBrick"
        THEN Cast(hp[id].key,
                  [i \in 1..Len(hp[id].value.cells) |->
                      [j \in 1..Len(hp[id].value.cells[i]) |->
                          _cast_quantlib_variable(hp[id].value.cells[i][j])]])
        ELSE IF hp[id].value # NoneBlock THEN Fails("AttributeError")
        ELSE Children(hp[id].key, QuantlibItems(hp, hp[id].bricks, <<>>, aliases))

\* for key, qd_item in self.bricks.items():
\*     child_dict[f(key).item()] = qd_item.to_quantlib_dict()
QuantlibItems(hp, bricks, items, aliases) ==
    IF Len(bricks) = 0 THEN [err |-> FALSE, etype |-> "", items |-> items]
    ELSE LET \* child_dict[k] = v: a key already there keeps its place
             SetItem(k, v) ==
                 IF \E i \in 1..Len(items) : items[i].k = k
                 THEN [i \in 1..Len(items) |->
                          IF items[i].k = k THEN [k |-> k, v |-> v] ELSE items[i]]
                 ELSE Append(items, [k |-> k, v |-> v])
             Item(d) ==
                 IF d.err THEN [err |-> TRUE, etype |-> d.etype, items |-> items]
                 ELSE QuantlibItems(hp, Tail(bricks),
                                    SetItem(CastKey(bricks[1].k), d.v), aliases)
         IN  Item(to_quantlib_dict(hp, bricks[1].id, aliases))

RECURSIVE element_from_dictionary(_, _)
RECURSIVE DictItems(_, _, _)
\* XLBricksUtils.element_from_dictionary: the heap and the composite made
element_from_dictionary(hp, input_data) ==
    DictItems(New(hp, XLBricks(NoneStr, <<>>)), NewId(hp), input_data.items)

\* for key, data in input_data.items(): qd_element[key] = ...
DictItems(hp, qd_element, items) ==
    IF Len(items) = 0 THEN [heap |-> hp, node |-> qd_element]
    ELSE LET Set(child) ==
                 DictItems([child.heap EXCEPT ![qd_element].bricks =
                                                  Put(@, items[1].k, child.node)],
                           qd_element, Tail(items))
         IN  Set(IF items[1].v.t = "dict"
                 THEN element_from_dictionary(hp, items[1].v)
                 ELSE [heap |-> New(hp, XLBricksOf(NoneStr, items[1].v)),
                       node |-> NewId(hp)])

RECURSIVE ListItems(_, _, _, _, _)
\* for idx, res in enumerate(input_data, 1):
\*     qd_element['%s_%s' % (key_prefix, idx)] = XLBricks(None, res)
ListItems(hp, qd_element, items, key_prefix, idx) ==
    IF Len(items) = 0 THEN [heap |-> hp, node |-> qd_element]
    ELSE ListItems([New(hp, XLBricksOf(NoneStr, items[1])) EXCEPT
                        ![qd_element].bricks =
                            Put(@, key_prefix \o <<"_">> \o ToStr(idx), NewId(hp))],
                   qd_element, Tail(items), key_prefix, idx + 1)

\* XLBricksUtils.element_from_list
element_from_list(hp, input_data, key_prefix) ==
    ListItems(New(hp, XLBricks(NoneStr, <<>>)), NewId(hp), input_data.items,
              key_prefix, 1)

\* the return handling of run_function and run_quantlib_function
ResultBrick(hp, func_results, function_name) ==
    IF func_results.t = "dict" THEN element_from_dictionary(hp, func_results)
    ELSE IF func_results.t \in {"list", "tuple"}
    THEN element_from_list(hp, func_results, function_name \o <<"_", "r", "e", "s">>)
    ELSE [heap |-> New(hp, XLBrick(NoneStr, ValueOf(func_results))), node |-> NewId(hp)]

\* an object whose methods are the items [k, v] of `methods`
Instance(methods) == [dtype |-> "instance", ndim |-> 0, cells |-> <<methods>>]

\* a function with the parameters `params` (none has a default) whose body
\* notes the call in `log` and then raises `raises` or returns `returns`
Function(params, raises, returns) ==
    [Callable(returns) EXCEPT !.params = params, !.raises = raises]

\* the body of func runs, entered by a call of the kind `mode`
Body(func, mode) ==
    [entered |-> TRUE, func |-> [func EXCEPT !.log = Append(@, mode)],
     err |-> func.raises # "", etype |-> func.raises,
     v |-> IF func.raises # "" THEN NoneCell ELSE func.cells[1][1]]

\* the call fails before the body runs
NotCalled(func, etype) ==
    [entered |-> FALSE, func |-> func, err |-> TRUE, etype |-> etype, v |-> NoneCell]

\* func(**kw); kw is what to_dict gave. The call binds when the keys of the
\* mapping are the parameters of func
CallKw(func, kw) ==
    IF kw.err THEN NotCalled(func, kw.etype)
    ELSE IF func.dtype # "function" \/ kw.v.t # "dict" THEN NotCalled(func, "TypeError")
    ELSE IF {kw.v.items[i].k : i \in 1..Len(kw.v.items)}
                # {func.params[i] : i \in 1..Len(func.params)}
    THEN NotCalled(func, "TypeError")
    ELSE Body(func, "kw")

\* func(*[arg for arg in args_dict.values()])
CallPositional(func, kw) ==
    IF kw.v.t # "dict" THEN NotCalled(func, "AttributeError")
    ELSE IF func.dtype # "function" \/ Len(kw.v.items) # Len(func.params)
    THEN NotCalled(func, "TypeError")
    ELSE Body(func, "pos")

\* _run_quantlib_function: the keyword call and, on any TypeError, the
\* positional call
_run_quantlib_function(func, kw) ==
    LET Again(r) ==
            IF ~r.err \/ r.etype # "TypeError" \/ kw.err THEN r
            ELSE CallPositional(r.func, kw)
    IN  Again(CallKw(func, kw))

\* the heap with the function object at `at` replaced by func: at.name is
\* None for the value of the leaf at.node, and else names the method of the
\* object that leaf holds
SetFunc(hp, at, func) ==
    IF at.name = NoneStr THEN [hp EXCEPT ![at.node].value = func]
    ELSE [hp EXCEPT ![at.node].value.cells[1] =
              [i \in 1..Len(@) |-> IF @[i].k = at.name THEN [k |-> @[i].k, v |-> func]
                                   ELSE @[i]]]

\* the call of func and the return handling, common to both functions; g
\* is the ingestion of the first argument and `at` the place of func
CallAndWrap(g, func, at, function_name, args, positional, persist, xlapp, n) ==
    LET Wrapped(st, calls, w) == Produce(st, w.heap, calls, w.node, xlapp, persist, n)
        Results(st, hp, calls, r) ==
            IF r.err THEN Raise(r.etype, st, SetFunc(hp, at, r.func), calls)
            ELSE Wrapped(st, calls,
                         ResultBrick(SetFunc(hp, at, r.func), r.v, function_name))
        WithArgs(a) ==
            IF a.err THEN Raise(a.etype, a.stack, a.heap, <<g.call, a.call>>)
            ELSE Results(a.stack, a.heap, <<g.call, a.call>>,
                         IF positional
                         THEN _run_quantlib_function(func, to_dict(a.heap, a.node))
                         ELSE CallKw(func, to_dict(a.heap, a.node)))
    IN  IF args = NoneBlock
        THEN Results(g.stack, g.heap, <<g.call>>,
                     CallKw(func, [err |-> FALSE, etype |-> "", v |-> PyDict(<<>>)]))
        ELSE WithArgs(get_bricks(g.stack, g.heap, args))

run_function(stack, hp, n, function_objects, function_name, args, persist, xlapp) ==
    LET Fails(g, etype) == Raise(etype, g.stack, g.heap, <<g.call>>)
        \* function_objects[[function_name]].value
        Found(g, brick) ==
            IF brick = None \/ g.heap[brick].kind # "XLBrick" \/ g.heap[brick].value = NoneBlock
            THEN Fails(g, "AttributeError")
            ELSE CallAndWrap(g, g.heap[brick].value, [node |-> brick, name |-> NoneStr],
                             function_name, args, FALSE, persist, xlapp, n)
        With(g) ==
            IF g.err THEN Raise(g.etype, g.stack, g.heap, <<g.call>>)
            ELSE IF g.node = None THEN Fails(g, "TypeError")
            ELSE IF g.heap[g.node].kind = "XLBrick" THEN Fails(g, "AttributeError")
            ELSE IF g.heap[g.node].value # NoneBlock THEN Fails(g, "TypeError")
            ELSE IF ~HasKey(g.heap[g.node].bricks, function_name) THEN Fails(g, "KeyError")
            ELSE Found(g, Child(g.heap[g.node].bricks, function_name))
    IN  With(get_bricks(stack, hp, function_objects))

run_quantlib_function(stack, hp, n, quantlib_objects, function_name, args, persist, xl_app) ==
    LET Fails(g, etype) == Raise(etype, g.stack, g.heap, <<g.call>>)
        \* getattr(quantlib_objects.value, function_name)
        Attr(g, value) ==
            IF value.dtype # "instance" \/ ~HasKey(value.cells[1], function_name)
            THEN Fails(g, "AttributeError")
            ELSE CallAndWrap(g, value.cells[1][CHOOSE i \in 1..Len(value.cells[1]) :
                                                  value.cells[1][i].k = function_name].v,
                             [node |-> g.node, name |-> function_name],
                             function_name, args, TRUE, persist, xl_app, n)
        With(g) ==
            IF g.err THEN Raise(g.etype, g.stack, g.heap, <<g.call>>)
            ELSE IF g.node = None \/ g.heap[g.node].kind # "XLBrick"
            THEN Fails(g, "AttributeError")
            ELSE Attr(g, g.heap[g.node].value)
    IN  With(get_bricks(stack, hp, quantlib_objects))

\* a replace that chooses by the kind of the node found, not of `brick`
replace_by_target_kind(hp, self, keys, brick) ==
    LET Failed(etype) == [err |-> TRUE, etype |-> etype, heap |-> hp]
        Done(after) == [err |-> FALSE, etype |-> "", heap |-> after]
        SetItem(parent) ==
            IF Len(keys) = 0 THEN Failed("IndexError")
            ELSE Done([hp EXCEPT ![parent.node].bricks =
                           Put(hp[parent.node].bricks, keys[Len(keys)], brick)])
        Found(xl_brick) ==
            IF xl_brick.err THEN Failed(xl_brick.etype)
            ELSE IF xl_brick.node = None THEN Failed("ValueError")
            ELSE IF hp[xl_brick.node].kind = "XLBricks"
            THEN SetItem(Walk(hp, self, SubSeq(keys, 1, Len(keys) - 1)))
            ELSE Done([hp EXCEPT ![xl_brick.node].value = hp[brick].value])
    IN  Found(Walk(hp, self, keys))

\* XLBricks.replace(keys, brick) on the composite `self`; brick is a node
replace(hp, self, keys, brick) ==
    LET Failed(etype) == [err |-> TRUE, etype |-> etype, heap |-> hp]
        Done(after) == [err |-> FALSE, etype |-> "", heap |-> after]
        \* xl_brick = self.__getitem__(keys[:-1]); xl_brick[keys[-1]] = brick
        SetItem(parent) ==
            IF Len(keys) = 0 THEN Failed("IndexError")
            ELSE Done([hp EXCEPT ![parent.node].bricks =
                           Put(hp[parent.node].bricks, keys[Len(keys)], brick)])
        Found(xl_brick) ==
            IF xl_brick.err THEN Failed(xl_brick.etype)
            ELSE IF xl_brick.node = None THEN Failed("ValueError")
            ELSE IF hp[brick].kind = "XLBricks"
            THEN SetItem(Walk(hp, self, SubSeq(keys, 1, Len(keys) - 1)))
            ELSE Done([hp EXCEPT ![xl_brick.node].value = hp[brick].value])
    IN  Found(Walk(hp, self, keys))

\* [key.strip(' \t\n\r') for key in keys.split('/')]
PathOf(keys) ==
    LET Stripped(parts) == [i \in 1..Len(parts) |-> Strip(parts[i])]
    IN  Stripped(Split(keys, "/"))

RECURSIVE deepcopy(_, _)
RECURSIVE CopyItems(_, _, _)
\* copy.deepcopy of the node id: the heap with the copies and the copy
deepcopy(hp, id) ==
    IF id = None THEN [heap |-> hp, node |-> None]
    ELSE IF hp[id].kind = "XLBrick" THEN [heap |-> New(hp, hp[id]), node |-> NewId(hp)]
    ELSE CopyItems(New(hp, [hp[id] EXCEPT !.bricks = <<>>]), NewId(hp), hp[id].bricks)

CopyItems(hp, copy, bricks) ==
    IF Len(bricks) = 0 THEN [heap |-> hp, node |-> copy]
    ELSE LET Set(c) ==
                 CopyItems([c.heap EXCEPT ![copy].bricks =
                                              Append(@, [k |-> bricks[1].k, id |-> c.node])],
                           copy, Tail(bricks))
         IN  Set(deepcopy(hp, bricks[1].id))

RECURSIVE ReplaceLoop(_, _, _, _, _, _)
\* the loop of replace_elements over the pairs [key, brick]; a pair is
\* skipped when its key or its brick is None, and what is put at the path
\* is XLUtils.get_bricks(bricks)
ReplaceLoop(stack, hp, calls, xlbricks, bricks, pairs) ==
    LET Fails(etype, st, h, cs) ==
            [err |-> TRUE, etype |-> etype, stack |-> st, heap |-> h, calls |-> cs]
        Replaced(g, r) ==
            IF r.err THEN Fails(r.etype, g.stack, g.heap, Append(calls, g.call))
            ELSE ReplaceLoop(g.stack, r.heap, Append(calls, g.call), xlbricks, bricks,
                             Tail(pairs))
        \* xl_brick.value = brick.value on a brick that is None
        NoBrick(g, xl_brick) ==
            Fails(IF xl_brick.err THEN xl_brick.etype
                  ELSE IF xl_brick.node = None THEN "ValueError"
                  ELSE "AttributeError",
                  g.stack, g.heap, Append(calls, g.call))
        With(g) ==
            IF g.err THEN Fails(g.etype, g.stack, g.heap, Append(calls, g.call))
            ELSE IF g.node = None
            THEN NoBrick(g, Walk(g.heap, xlbricks, PathOf(pairs[1].key)))
            ELSE Replaced(g, replace(g.heap, xlbricks, PathOf(pairs[1].key), g.node))
    IN  IF Len(pairs) = 0
        THEN [err |-> FALSE, etype |-> "", stack |-> stack, heap |-> hp, calls |-> calls]
        ELSE IF pairs[1].key = NoneStr \/ pairs[1].brick = NoneBlock
        THEN ReplaceLoop(stack, hp, calls, xlbricks, bricks, Tail(pairs))
        ELSE IF hp[xlbricks].kind # "XLBricks"
        THEN Fails("AttributeError", stack, hp, calls)
        ELSE With(get_bricks(stack, hp, bricks))

replace_elements(stack, hp, n, bricks, pairs, persist, xlapp) ==
    LET Looped(l, xlbricks) ==
            IF l.err THEN Raise(l.etype, l.stack, l.heap, l.calls)
            ELSE Produce(l.stack, l.heap, l.calls, xlbricks, xlapp, persist, n)
        Copied(g, c) ==
            Looped(ReplaceLoop(g.stack, c.heap, <<g.call>>, c.node, bricks, pairs), c.node)
        With(g) ==
            IF g.err THEN Raise(g.etype, g.stack, g.heap, <<g.call>>)
            ELSE IF g.node = None THEN Raise("AttributeError", g.stack, g.heap, <<g.call>>)
            ELSE Copied(g, deepcopy(g.heap, g.node))
    IN  With(get_bricks(stack, hp, bricks))

lookup_element(stack, hp, n, bricks, keys, persist, xlapp) ==
    LET Found(g, t) ==
            IF t.err THEN Raise(t.etype, g.stack, g.heap, <<g.call>>)
            ELSE Produce(g.stack, g.heap, <<g.call>>, t.node, xlapp, persist, n)
        With(g) ==
            IF g.err THEN Raise(g.etype, g.stack, g.heap, <<g.call>>)
            ELSE Found(g, GetItem(g.heap, g.node, PathOf(keys)))
    IN  With(get_bricks(stack, hp, bricks))

flatten_element(stack, hp, brick) ==
    LET With(g) ==
            IF g.err THEN Raise(g.etype, g.stack, g.heap, <<g.call>>)
            ELSE IF g.node = None \/ g.heap[g.node].kind # "XLBrick"
            THEN Raise("AttributeError", g.stack, g.heap, <<g.call>>)
            ELSE Ok(g.stack, g.heap, <<g.call>>, RawOut(g.heap[g.node].value))
    IN  With(get_bricks(stack, hp, brick))

assign_alias(stack, hp, n, bricks, alias) ==
    LET With(g) ==
            IF g.err THEN Raise(g.etype, g.stack, g.heap, <<g.call>>)
            ELSE Ok(g.stack, g.heap, <<g.call>>,
                    FrontOut(XLBricksFront(alias, g.node, TRUE, n)))
    IN  With(get_bricks(stack, hp, bricks))

RECURSIVE MergeLoop(_, _, _, _, _)
\* the loop of merge_elements over brick_1 .. brick_5; acc is xlbricks.bricks
MergeLoop(stack, hp, acc, args, calls) ==
    LET With(g) ==
            IF g.err
            THEN [err |-> TRUE, etype |-> g.etype, stack |-> g.stack,
                  heap |-> g.heap, acc |-> acc, calls |-> Append(calls, g.call)]
            ELSE IF g.node = None \/ g.heap[g.node].kind # "XLBricks"
            THEN [err |-> TRUE, etype |-> "AttributeError", stack |-> g.stack,
                  heap |-> g.heap, acc |-> acc, calls |-> Append(calls, g.call)]
            ELSE MergeLoop(g.stack, g.heap, Update(acc, g.heap[g.node].bricks),
                           Tail(args), Append(calls, g.call))
    IN  IF Len(args) = 0
        THEN [err |-> FALSE, etype |-> "", stack |-> stack, heap |-> hp,
              acc |-> acc, calls |-> calls]
        ELSE IF args[1] = NoneBlock
        THEN MergeLoop(stack, hp, acc, Tail(args), calls)
        ELSE With(get_bricks(stack, hp, args[1]))

merge_elements(stack, hp, n, args, persist, xlapp) ==
    LET Merged(m) ==
            IF m.err THEN Raise(m.etype, m.stack, m.heap, m.calls)
            ELSE Produce(m.stack, New(m.heap, XLBricks(NoneStr, m.acc)), m.calls,
                         NewId(m.heap), xlapp, persist, n)
    IN  Merged(MergeLoop(stack, hp, <<>>, args, <<>>))

\* xlfunctions.delete_bricks calls XLUtils.delete_element, which XLUtils
\* does not define
delete_bricks(stack, hp, bricks) == Raise("AttributeError", stack, hp, <<>>)

\* XLUtils.delete_bricks
XLUtils_delete_bricks(stack, hp, data) ==
    IF is_bricks_front_name(data)
    THEN LET DelItem(key) == IF StackContains(stack, key)
                             THEN Ok(StackDel(stack, key), hp, <<>>, NoOut)
                             ELSE Raise("KeyError", stack, hp, <<>>)
         IN  DelItem(RefKey(data.cells[1][1].s))
    ELSE Ok(stack, hp, <<>>, NoOut)

\* XLBricksFrontStack.clear through clear_bricks_front
clear_bricks_front(stack, hp) == Ok(EmptyStack, hp, <<>>, NoOut)


(***************************************************************************)
(* The decorators and the exposed functions.  An exposed call ends with    *)
(* `ret`, what the caller gets: a reference string (kind "ref"), a marker- *)
(* prefixed error string (kind "error": etype is the exception's type,     *)
(* param the parameter a validation names), a raw value ("raw"), None      *)
(* ("none") or an exception that reaches the caller ("raise"); text is the *)
(* string returned or the message of the exception.                        *)
(***************************************************************************)
\* str(e): the message of an exception, one piece per exception type
str_e(etype) == <<"<", etype, " message>">>

Ret(kind, text, etype, param, value) ==
    [kind |-> kind, text |-> text, etype |-> etype, param |-> param, value |-> value]

\* the outcome of an exposed call: mid is the table before the result is
\* registered, stack the table at the end, reg the wrapper registered
Outcome(mid, stack, hp, calls, ret, made, reg) ==
    [mid |-> mid, stack |-> stack, heap |-> hp, calls |-> calls, ret |-> ret,
     made |-> made, reg |-> reg]

\* a wrap that stores an empty wrapper when f raises
XLBricksFunctionEager(r, is_dynamic) ==
    IF r.err
    THEN Outcome(r.stack, add_bricks_to_front_stack(r.stack, NoFront), r.heap, r.calls,
                 Ret("raise", str_e(r.etype), r.etype, "", NoneBlock), FALSE, NoFront)
    ELSE IF is_dynamic /\ r.out.kind # "front"
    THEN Outcome(r.stack, r.stack, r.heap, r.calls,
                 Ret(IF r.out.kind = "raw" THEN "raw" ELSE "none",
                     <<>>, "", "", r.out.value), FALSE, NoFront)
    ELSE Outcome(r.stack, add_bricks_to_front_stack(r.stack, r.out.front),
                 r.heap, r.calls,
                 Ret("ref", bricks_full_name(Versioned(r.stack, r.out.front)),
                     "", "", NoneBlock),
                 TRUE, Versioned(r.stack, r.out.front))

\* XLBricksFunction(is_dynamic).__call__: wrap
XLBricksFunction(r, is_dynamic) ==
    IF r.err
    THEN Outcome(r.stack, r.stack, r.heap, r.calls,
                 Ret("raise", str_e(r.etype), r.etype, "", NoneBlock), FALSE, NoFront)
    ELSE IF is_dynamic /\ r.out.kind # "front"
    THEN Outcome(r.stack, r.stack, r.heap, r.calls,
                 Ret(IF r.out.kind = "raw" THEN "raw" ELSE "none",
                     <<>>, "", "", r.out.value), FALSE, NoFront)
    ELSE IF r.out.kind # "front"
    THEN Outcome(r.stack, r.stack, r.heap, r.calls,
                 Ret("raise", str_e("AttributeError"), "AttributeError", "", NoneBlock), FALSE, NoFront)
    ELSE Outcome(r.stack, add_bricks_to_front_stack(r.stack, r.out.front),
                 r.heap, r.calls,
                 Ret("ref", bricks_full_name(Versioned(r.stack, r.out.front)),
                     "", "", NoneBlock),
                 TRUE, Versioned(r.stack, r.out.front))

\* the built-in exceptions that are not subclasses of Exception
NotException == {"SystemExit", "KeyboardInterrupt", "GeneratorExit"}

\* _return_errors: what `except Exception` catches becomes
\* _ERROR_PREFIX + '%s: %s' % (type(e).__name__, str(e))
_return_errors(o) ==
    IF o.ret.kind = "raise" /\ o.ret.etype \notin NotException
    THEN [o EXCEPT !.ret.kind = "error",
                   !.ret.text = <<_ERROR_PREFIX, o.ret.etype, ": ">> \o o.ret.text]
    ELSE o

\* `if err: return err`: the early return of an exposed function
Rejected(stack, hp, err) ==
    Outcome(stack, stack, hp, <<>>, Ret("error", err, "", err[2], NoneBlock),
            FALSE, NoFront)

\* `a or b` over two validation results
OrErr(a, b) == IF a # NoneStr THEN a ELSE b

xlb_array(stack, hp, n, data, persist, xlapp) ==
    LET Checked(err) ==
            IF err # NoneStr THEN Rejected(stack, hp, err)
            ELSE _return_errors(XLBricksFunction(
                     array_create(stack, hp, n, data, persist, xlapp), FALSE))
    IN  Checked(_check_array_2d("data", data))

xlb_brick(stack, hp, n, key, data, persist, xlapp) ==
    LET Checked(err) ==
            IF err # NoneStr THEN Rejected(stack, hp, err)
            ELSE _return_errors(XLBricksFunction(
                     xlbrick_create(stack, hp, n, key, data, persist, xlapp), FALSE))
    IN  Checked(OrErr(_check_required("key", key), _check_array_2d("data", data)))

xlb_list(stack, hp, n, data, persist, xlapp) ==
    LET Checked(err) ==
            IF err # NoneStr THEN Rejected(stack, hp, err)
            ELSE _return_errors(XLBricksFunction(
                     list_create(stack, hp, n, data, persist, xlapp), FALSE))
    IN  Checked(_check_array_2d("data", data))

xlb_grid(stack, hp, n, data, persist, xlapp) ==
    LET Checked(err) ==
            IF err # NoneStr THEN Rejected(stack, hp, err)
            ELSE _return_errors(XLBricksFunction(
                     grid_create(stack, hp, n, data, persist, xlapp), FALSE))
    IN  Checked(_check_array_2d("data", data))

xlb_create_function(stack, hp, n, functions, persist, xlapp) ==
    LET Checked(err) ==
            IF err # NoneStr THEN Rejected(stack, hp, err)
            ELSE _return_errors(XLBricksFunction(
                     create_function_objects(stack, hp, n, functions, persist, xlapp),
                     FALSE))
    IN  Checked(_check_array_2d("functions", functions))

xlb_run_function(stack, hp, n, function_brick, function_name, args, persist, xlapp) ==
    LET Checked(err) ==
            IF err # NoneStr THEN Rejected(stack, hp, err)
            ELSE _return_errors(XLBricksFunction(
                     run_function(stack, hp, n, function_brick, function_name, args,
                                  persist, xlapp), TRUE))
    IN  Checked(OrErr(_check_array_2d("function_brick", function_brick),
                      _check_required("function_name", function_name)))

xlb_run_quantlib_function(stack, hp, n, quantlib_object, function_name, args, persist, xl_app) ==
    LET Checked(err) ==
            IF err # NoneStr THEN Rejected(stack, hp, err)
            ELSE _return_errors(XLBricksFunction(
                     run_quantlib_function(stack, hp, n, quantlib_object, function_name,
                                           args, persist, xl_app), TRUE))
    IN  Checked(OrErr(_check_array_2d("quantlib_object", quantlib_object),
                      _check_required("function_name", function_name)))

xlb_lookup(stack, hp, n, bricks, keys, persist, xlapp) ==
    LET Checked(err) ==
            IF err # NoneStr THEN Rejected(stack, hp, err)
            ELSE _return_errors(XLBricksFunction(
                     lookup_element(stack, hp, n, bricks, keys, persist, xlapp), FALSE))
    IN  Checked(OrErr(_check_array_2d("bricks", bricks), _check_required("keys", keys)))

xlb_flatten(stack, hp, brick) ==
    LET Checked(err) ==
            IF err # NoneStr THEN Rejected(stack, hp, err)
            ELSE _return_errors(XLBricksFunction(flatten_element(stack, hp, brick), TRUE))
    IN  Checked(_check_array_2d("brick", brick))

xlb_alias(stack, hp, n, brick, alias) ==
    LET Checked(err) ==
            IF err # NoneStr THEN Rejected(stack, hp, err)
            ELSE _return_errors(XLBricksFunction(
                     assign_alias(stack, hp, n, brick, alias), FALSE))
    IN  Checked(OrErr(_check_array_2d("brick", brick), _check_required("alias", alias)))

\* args is <<brick_1, ..., brick_5>>
xlb_merge(stack, hp, n, args, persist, xlapp) ==
    LET Checked(err) ==
            IF err # NoneStr THEN Rejected(stack, hp, err)
            ELSE _return_errors(XLBricksFunction(
                     merge_elements(stack, hp, n, args, persist, xlapp), FALSE))
    IN  Checked(OrErr(_check_array_2d("brick_1", args[1]),
                      _check_array_2d("brick_2", args[2])))

xlb_clear_bricks_front(stack, hp) ==
    LET Plain(r) == Outcome(r.stack, r.stack, r.heap, r.calls,
                            Ret("none", <<>>, "", "", NoneBlock), FALSE, NoFront)
    IN  _return_errors(Plain(clear_bricks_front(stack, hp)))

\* XLBricksFrontStack.to_dict raises when a wrapper holds None for its tree
to_dict_raises(stack) == \E n \in DOMAIN stack : stack[n].xlbricks = None

\* xlb_open_bricks_explorer: the table is exported, the window is shown and
\* sys.exit(explorer_app.exec_()) raises SystemExit once it is closed
xlb_open_bricks_explorer(stack, hp) ==
    LET Exits(etype) == Outcome(stack, stack, hp, <<>>,
                                Ret("raise", str_e(etype), etype, "", NoneBlock),
                                FALSE, NoFront)
    IN  _return_errors(Exits(IF to_dict_raises(stack) THEN "AttributeError"
                             ELSE "SystemExit"))

\* xlfunctions.delete_bricks as decorated with XLBricksFunction(True)
xl_delete_bricks(stack, hp, bricks) ==
    XLBricksFunction(delete_bricks(stack, hp, bricks), TRUE)

\* a direct call of delete_bricks_from_front_stack with the wrapper w
call_delete_bricks_from_front_stack(stack, hp, w) ==
    LET Plain(post) == Outcome(post, post, hp, <<>>,
                               Ret("none", <<>>, "", "", NoneBlock), FALSE, NoFront)
    IN  Plain(delete_bricks_from_front_stack(stack, w))

\* a direct call of the static method XLUtils.delete_bricks
call_XLUtils_delete_bricks(stack, hp, data) ==
    LET Plain(r) == Outcome(r.stack, r.stack, r.heap, r.calls,
                            Ret(IF r.err THEN "raise" ELSE "none",
                                IF r.err THEN str_e(r.etype) ELSE <<>>, r.etype, "",
                                NoneBlock),
                            FALSE, NoFront)
    IN  Plain(XLUtils_delete_bricks(stack, hp, data))


(***************************************************************************)
(* State                                                                   *)
(***************************************************************************)
VARIABLES
    front_stack, \* XLBricksFrontStack.front_stack: name -> XLBricksFront
    heap,        \* the XLBrick / XLBricks objects, by node index
    uuids,       \* number of XLBricksFront objects constructed so far
    issued,      \* name -> versions issued since the name's entry was last removed
    hist,        \* name -> every version ever issued under the name
    ephem,       \* the wrappers produced with persist=False, in order
    arg,         \* the function applied on its own and its arguments
    res,         \* what that function returned
    threads      \* the callers inside add_bricks_to_front_stack, by thread

vars == <<front_stack, heap, uuids, issued, hist, ephem, arg, res, threads>>

\* no function is applied on its own
NoArg == [f |-> "none"]
NoRes == [f |-> "none"]

Init ==
    /\ front_stack = EmptyStack
    /\ heap = <<>>
    /\ uuids = 0
    /\ issued = [n \in {} |-> <<>>]
    /\ hist = [n \in {} |-> <<>>]
    /\ ephem = <<>>
    /\ arg = NoArg
    /\ res = NoRes
    /\ threads = <<>>

(***************************************************************************)
(* What callers pass                                                       *)
(***************************************************************************)
\* addresses of calling cells ('[Book]Sheet!$A$1', abbreviated)
Cells == {<<"A", "1">>}

\* the xlapp argument: an application whose Caller is a cell
XlApps == Cells

\* (persist, xlapp) pairs; xlapp is not used when persist is False
PersistArgs == {[persist |-> FALSE, xlapp |-> NoneStr]}
               \cup {[persist |-> TRUE, xlapp |-> x] : x \in XlApps}

\* aliases a caller may choose: one with a colon and the synthetic names of
\* the references it has not passed on yet
Aliases == {<<"a", ":", "b">>}
           \cup {ephem[i].name : i \in 1..Len(ephem)}

\* the reference strings returned so far
Returned == UNION {{n \o <<":">> \o ToStr(hist[n][i]) : i \in 1..Len(hist[n])} :
                   n \in DOMAIN hist}

\* a reference string that was never returned
GhostRef == <<"g", ":", "0">>

Refs == Returned \cup {GhostRef}

\* a reference in a single cell
RefBlock(t) == Block("str", <<<<StrCell(t)>>>>)

\* a reference with empty cells around it
PaddedRefBlock(t) == Block("object", <<<<NoneCell, NoneCell>>, <<StrCell(t), NoneCell>>>>)

OneNum == Block("float", <<<<NumCell(1)>>>>)
NumStr == Block("str", <<<<StrCell(<<"7">>), StrCell(NanStr)>>>>)
TwoRows == Block("object", <<<<StrCell(GhostRef)>>, <<NumCell(1)>>>>)
Word == Block("str", <<<<StrCell(<<"k">>)>>>>)
AllNan == Block("float", <<<<NanCell>>>>)
EmptyBlock == Block("float", <<<<>>>>)

RefBlocks == {RefBlock(t) : t \in Refs}

\* the references of the wrappers the table holds
Live == {bricks_full_name(front_stack[n]) : n \in DOMAIN front_stack}

\* blocks passed to the functions that register a result: the reference of
\* a wrapper in the table or a number
DataArgs == {RefBlock(t) : t \in Live} \cup {OneNum}

\* a one-dimensional array, as a direct caller can pass it
OneDim == [dtype |-> "float", ndim |-> 1, cells |-> <<<<NumCell(1)>>>>]

\* blocks that are rejected or make the function fail
BadArgs == {AllNan, EmptyBlock, NoneBlock}

\* blocks and scalars of every kind the validation distinguishes
CheckedBlocks == DataArgs \cup {NoneBlock, OneDim, EmptyBlock}
CheckedScalars == {<<"k">>, NoneStr, NanFloat, <<" ">>, NanStr}

\* blocks passed to the functions that only read
AnyArgs == DataArgs \cup RefBlocks \cup {PaddedRefBlock(t) : t \in Refs}
           \cup {TwoRows, NumStr, Word} \cup BadArgs

\* the key of xlb_brick and the paths of xlb_lookup
Keys == {<<"k">>, NoneStr}
Paths == {<<"k">>, <<"z">>, <<"k", "/", " ", "k">>, <<" ">>}

(***************************************************************************)
(* The calls a caller can make in the current state: the function, its     *)
(* block arguments and the outcome the code produces                       *)
(***************************************************************************)
Call(op, args, persist, o) == [op |-> op, args |-> args, persist |-> persist, o |-> o]

XlbArrayCalls ==
    {Call("xlb_array", <<data>>, pa.persist,
          xlb_array(front_stack, heap, uuids + 1, data, pa.persist, pa.xlapp)) :
         data \in DataArgs \cup BadArgs, pa \in PersistArgs}

XlbBrickCalls ==
    {Call("xlb_brick", <<x[2]>>, x[3].persist,
          xlb_brick(front_stack, heap, uuids + 1, x[1], x[2], x[3].persist, x[3].xlapp)) :
         x \in Keys \X DataArgs \X PersistArgs}

XlbListCalls ==
    {Call("xlb_list", <<data>>, pa.persist,
          xlb_list(front_stack, heap, uuids + 1, data, pa.persist, pa.xlapp)) :
         data \in DataArgs, pa \in PersistArgs}

XlbLookupCalls ==
    {Call("xlb_lookup", <<x[1]>>, x[3].persist,
          xlb_lookup(front_stack, heap, uuids + 1, x[1], x[2], x[3].persist, x[3].xlapp)) :
         x \in DataArgs \X Paths \X PersistArgs}

XlbFlattenCalls ==
    {Call("xlb_flatten", <<brick>>, FALSE, xlb_flatten(front_stack, heap, brick)) :
         brick \in AnyArgs}

XlbAliasCalls ==
    {Call("xlb_alias", <<brick>>, TRUE,
          xlb_alias(front_stack, heap, uuids + 1, brick, alias)) :
         brick \in DataArgs, alias \in Aliases \cup {NoneStr}}

XlbMergeCalls ==
    {Call("xlb_merge", <<x[1], x[2], NoneBlock, NoneBlock, NoneBlock>>, x[3].persist,
          xlb_merge(front_stack, heap, uuids + 1,
                    <<x[1], x[2], NoneBlock, NoneBlock, NoneBlock>>,
                    x[3].persist, x[3].xlapp)) :
         x \in DataArgs \X (DataArgs \cup {NoneBlock}) \X PersistArgs}

XlbClearCalls ==
    {Call("xlb_clear_bricks_front", <<>>, FALSE,
          xlb_clear_bricks_front(front_stack, heap))}

XlbOpenBricksExplorerCalls ==
    {Call("xlb_open_bricks_explorer", <<>>, FALSE,
          xlb_open_bricks_explorer(front_stack, heap))}

DeleteBricksCalls ==
    {Call("delete_bricks", <<bricks>>, FALSE,
          xl_delete_bricks(front_stack, heap, bricks)) : bricks \in RefBlocks}

XLUtilsDeleteBricksCalls ==
    {Call("XLUtils.delete_bricks", <<data>>, FALSE,
          call_XLUtils_delete_bricks(front_stack, heap, data)) :
         data \in RefBlocks \cup {OneNum, TwoRows}}

\* the wrappers a caller of the library can hold: those of the table and
\* the persist=False wrappers whose reference is still to be ingested
Held == {front_stack[n] : n \in DOMAIN front_stack}
        \cup {ephem[i].front : i \in 1..Len(ephem)}

\* direct calls of delete_bricks_from_front_stack; w is the wrapper passed
RetireCalls ==
    {[op |-> "delete_bricks_from_front_stack", w |-> w,
      o |-> call_delete_bricks_from_front_stack(front_stack, heap, w)] : w \in Held}

\* the functions exposed to the spreadsheet
XlbCalls ==
    XlbArrayCalls \cup XlbBrickCalls \cup XlbListCalls \cup XlbLookupCalls
    \cup XlbFlattenCalls \cup XlbAliasCalls \cup XlbMergeCalls \cup XlbClearCalls
    \cup XlbOpenBricksExplorerCalls

\* the xlb functions that register their result
ProducingCalls ==
    {c \in XlbCalls : c.op \notin {"xlb_flatten", "xlb_clear_bricks_front",
                                   "xlb_open_bricks_explorer"}}

AllCalls == XlbCalls \cup DeleteBricksCalls \cup XLUtilsDeleteBricksCalls

(***************************************************************************)
(* Actions: one per exposed function                                       *)
(***************************************************************************)
\* names whose entry the call removed before it registered its result
Removed(o) == {n \in DOMAIN front_stack : n \notin DOMAIN o.mid}

\* a version history after the call: reset says whether a removal ends it
Recorded(f, o, reset) ==
    LET kept == [n \in (DOMAIN f) \ (IF reset THEN Removed(o) ELSE {}) |-> f[n]]
        name == bricks_name(o.reg)
    IN  IF o.made
        THEN [n \in (DOMAIN kept) \cup {name} |->
                 IF n = name
                 THEN Append(IF n \in DOMAIN kept THEN kept[n] ELSE <<>>, o.reg.counter)
                 ELSE kept[n]]
        ELSE kept

\* the get_bricks call ingests the reference string `text`
Ingests(call, text) ==
    /\ ~call.err
    /\ Rows(call.cropped) = 1
    /\ Cols(call.cropped) = 1
    /\ call.cropped.cells[1][1] = StrCell(text)

\* the call ingests the reference of the persist=False wrapper e
Used(o, e) == \E j \in 1..Len(o.calls) : Ingests(o.calls[j], e.ref)

\* the persist=False wrappers whose reference no call has ingested, after
\* the call
Ephemerals(o) ==
    LET waiting == SelectSeq(ephem, LAMBDA e : ~Used(o, e))
    IN  IF o.made /\ ~o.reg.persist
        THEN Append(waiting, [name |-> bricks_name(o.reg), ref |-> o.ret.text,
                              front |-> o.reg,
                              fresh |-> bricks_name(o.reg) \notin DOMAIN hist])
        ELSE waiting

\* the objects that stay referenced after the call: the trees of the table's
\* wrappers and of the persist=False wrappers nobody has ingested yet
Roots(o, waiting) ==
    {o.stack[n].xlbricks : n \in DOMAIN o.stack}
    \cup {waiting[i].front.xlbricks : i \in 1..Len(waiting)}

\* the state after an exposed call with outcome o
Commit(o) ==
    LET Collected(waiting, hp) ==
            /\ Len(hp) <= MaxNodes
            /\ front_stack' = o.stack
            /\ heap' = hp
            /\ uuids' = IF o.made THEN uuids + 1 ELSE uuids
            /\ issued' = Recorded(issued, o, TRUE)
            /\ hist' = Recorded(hist, o, FALSE)
            /\ ephem' = waiting
            /\ UNCHANGED <<arg, res, threads>>
        Kept(waiting) == Collected(waiting, Reclaim(o.heap, Roots(o, waiting)))
    IN  Kept(Ephemerals(o))

XlbArray == uuids < MaxFronts /\ \E c \in XlbArrayCalls : Commit(c.o)

XlbBrick == uuids < MaxFronts /\ \E c \in XlbBrickCalls : Commit(c.o)

XlbList == uuids < MaxFronts /\ \E c \in XlbListCalls : Commit(c.o)

XlbLookup == uuids < MaxFronts /\ \E c \in XlbLookupCalls : Commit(c.o)

XlbFlatten == \E c \in XlbFlattenCalls : Commit(c.o)

XlbAlias == uuids < MaxFronts /\ \E c \in XlbAliasCalls : Commit(c.o)

XlbMerge == uuids < MaxFronts /\ \E c \in XlbMergeCalls : Commit(c.o)

XlbClearBricksFront == \E c \in XlbClearCalls : Commit(c.o)

XlbOpenBricksExplorer == \E c \in XlbOpenBricksExplorerCalls : Commit(c.o)

DeleteBricks == \E c \in DeleteBricksCalls : Commit(c.o)

XLUtilsDeleteBricks == \E c \in XLUtilsDeleteBricksCalls : Commit(c.o)

DeleteBricksFromFrontStack == \E c \in RetireCalls : Commit(c.o)

Next ==
    \/ XlbArray
    \/ XlbBrick
    \/ XlbList
    \/ XlbLookup
    \/ XlbFlatten
    \/ XlbAlias
    \/ XlbMerge
    \/ XlbClearBricksFront
    \/ XlbOpenBricksExplorer
    \/ DeleteBricks
    \/ XLUtilsDeleteBricks
    \/ DeleteBricksFromFrontStack

Spec == Init /\ [][Next]_vars

(***************************************************************************)
(* The functions of the library applied on their own: one call with        *)
(* arguments drawn from bounded sets, on an empty table                    *)
(***************************************************************************)
\* rows and columns of the blocks passed
MaxRows == 3
MaxCols == 2

\* the cells of a block by dtype: an empty one and a filled one
CellsOf(dtype) ==
    IF dtype = "str" THEN {StrCell(NanStr), StrCell(<<"k">>)}
    ELSE IF dtype = "object" THEN {NoneCell, NumCell(1)}
    ELSE {NanCell, NumCell(1)}

\* every rectangular block of at most MaxRows x MaxCols cells
Blocks ==
    UNION {{Block(dtype, cells) : cells \in [1..r -> [1..c -> CellsOf(dtype)]]} :
               <<dtype, r, c>> \in {"str", "object", "float"} \X (1..MaxRows) \X (1..MaxCols)}

CropRangeArgs == {[f |-> "crop_range", data |-> b] : b \in Blocks}

\* the cells of the first column of a grid: empty or one of two keys
KeyCellsOf(dtype) ==
    {IF dtype = "str" THEN StrCell(NanStr) ELSE NoneCell,
     StrCell(<<"a">>), StrCell(<<"b">>)}

\* the rows of a grid of c columns: a key cell and c - 1 cells
GridRows(dtype, c) ==
    {<<k>> \o t : k \in KeyCellsOf(dtype), t \in [1..(c - 1) -> CellsOf(dtype)]}

\* grids with string keys, of the key column alone or with one more
\* column, and float blocks whose first column is empty
GridBlocks ==
    UNION {{Block(dtype, cells) : cells \in [1..r -> GridRows(dtype, c)]} :
               <<dtype, r, c>> \in {"str", "object"} \X (1..MaxRows) \X (1..2)}
    \cup {b \in Blocks : b.dtype = "float" /\ ColAllNan(b, 1)}

\* xlb_grid is called from the cell A1 with persist=True
XlbGridArgs ==
    {[f |-> "xlb_grid", data |-> b, persist |-> TRUE, xlapp |-> <<"A", "1">>] :
         b \in GridBlocks}

\* a tree (node 1: a leaf 'a' and a composite 'c' that holds a leaf 'a') and
\* two values to put into it: the leaf 5 and the composite 6
TreeHeap ==
    <<XLBricks(NoneStr, <<[k |-> <<"a">>, id |-> 2], [k |-> <<"c">>, id |-> 3]>>),
      XLBrick(NoneStr, OneNum),
      XLBricks(NoneStr, <<[k |-> <<"a">>, id |-> 4]>>),
      XLBrick(NoneStr, Word),
      XLBrick(NoneStr, NumStr),
      XLBricks(NoneStr, <<[k |-> <<"b">>, id |-> 5]>>)>>

\* paths of up to two names, one of them in no composite
Names == {<<"a">>, <<"c">>, <<"z">>}
TreePaths == {<<>>} \cup {<<x>> : x \in Names} \cup {<<x, y>> : x, y \in Names}

ReplaceArgs ==
    {[f |-> "replace", hp |-> TreeHeap, self |-> 1, keys |-> keys, brick |-> b] :
         keys \in TreePaths, b \in {5, 6}}

\* lines of code: two function headers, a return statement, an import
DefF == <<"d", "e", "f", " ", "f", "(", ")", ":">>
DefG == <<"d", "e", "f", " ", "g", "(", ")", ":">>
Return42 == <<" ", " ", " ", " ", "r", "e", "t", "u", "r", "n", " ", "4", "2">>
ImportOs == <<"i", "m", "p", "o", "r", "t", " ", "o", "s">>

\* one-column object blocks of up to MaxRows lines of code or empty cells
CodeBlocks ==
    UNION {{Block("object", cells) :
                cells \in [1..r -> {<<c>> : c \in {StrCell(DefF), StrCell(DefG),
                                                   StrCell(Return42), StrCell(ImportOs),
                                                   NoneCell}}]} :
               r \in 1..MaxRows}

XlbCreateFunctionArgs ==
    {[f |-> "xlb_create_function", data |-> b, persist |-> FALSE, xlapp |-> NoneStr] :
         b \in CodeBlocks}

\* what a stored function returns: numbers and None, mappings of up to
\* two keys (one level of nesting), lists and tuples of up to two elements
Scalars == {NumCell(0), NumCell(1), NoneCell}
Mappings ==
    LET Vals == Scalars \cup {PyDict(<<[k |-> <<"b">>, v |-> NumCell(1)]>>)}
    IN  {PyDict(<<>>)}
        \cup {PyDict(<<[k |-> <<"a">>, v |-> x]>>) : x \in Vals}
        \cup {PyDict(<<[k |-> <<"a">>, v |-> x], [k |-> <<"b">>, v |-> y]>>) :
                  x \in Vals, y \in Scalars}
Sequences ==
    UNION {{PyList(e), PyTuple(e)} :
               e \in {<<>>} \cup {<<x>> : x \in Scalars}
                            \cup {<<x, y>> : x, y \in Scalars}}
FuncResults == Scalars \cup Mappings \cup Sequences

\* a heap with the composite {f: a function that returns r, z: None} and
\* an object whose method f returns r, and the table that holds both
FuncHeap(r) ==
    <<XLBricks(NoneStr, <<[k |-> <<"f">>, id |-> 2], [k |-> <<"z">>, id |-> 3]>>),
      XLBrick(NoneStr, Callable(r)),
      XLBrick(NoneStr, NoneBlock),
      XLBrick(NoneStr, Instance(<<[k |-> <<"f">>, v |-> Callable(r)]>>))>>
FuncStack ==
    StackSet(StackSet(EmptyStack, UuidOf(1), XLBricksFront(NoneStr, 1, FALSE, 1)),
             UuidOf(2), XLBricksFront(NoneStr, 4, FALSE, 2))

RunArgs ==
    {[f |-> f, returns |-> r, hp |-> FuncHeap(r), stack |-> FuncStack,
      name |-> name, args |-> args] :
         f \in {"xlb_run_function", "xlb_run_quantlib_function"},
         r \in FuncResults, name \in {<<"f">>, <<"g">>, <<"z">>},
         args \in {NoneBlock, Word}}

\* the trees of TreeHeap and a leaf of its own, held by the persistent
\* wrappers A1 (the composite 1) and C1 (the leaf 7) and by the
\* non-persistent wrapper u3 (the composite 6)
ReplaceHeap == Append(TreeHeap, XLBrick(NoneStr, Block("float", <<<<NumCell(2)>>>>)))
ReplaceStack ==
    StackSet(StackSet(StackSet(EmptyStack,
        <<"A", "1">>, XLBricksFront(<<"A", "1">>, 1, TRUE, 1)),
        <<"C", "1">>, XLBricksFront(<<"C", "1">>, 7, TRUE, 2)),
        UuidOf(3), XLBricksFront(NoneStr, 6, FALSE, 3))

ReplaceRefs == {RefBlock(bricks_full_name(ReplaceStack[n])) : n \in DOMAIN ReplaceStack}

ReplaceElementsArgs ==
    {[f |-> "replace_elements", hp |-> ReplaceHeap, stack |-> ReplaceStack,
      bricks |-> b, pairs |-> <<[key |-> k1, brick |-> b1], p2>>] :
         b \in ReplaceRefs \cup {OneNum},
         k1 \in {<<"a">>, <<"c", "/", "a">>, <<"z">>, <<"b">>, NoneStr},
         b1 \in ReplaceRefs \cup {OneNum, NoneBlock},
         p2 \in {[key |-> NoneStr, brick |-> NoneBlock],
                 [key |-> <<"c">>, brick |-> RefBlock(<<"C", "1", ":", "0">>)]}}

\* functions of no or one parameter whose body returns 1 or raises
Functions ==
    {Function(params, raises, NumCell(1)) :
         params \in {<<>>, <<<<"a">>>>, <<<<"x">>>>},
         raises \in {"", "TypeError", "ValueError"}}

\* a heap with the composite {f: func}, an object with the method f = func
\* and the mappings {a: [[1.0]]} and {}; the table holds the first two
\* under u1 and u2 and the mappings under A1 and B1
InvokeHeap(func) ==
    <<XLBricks(NoneStr, <<[k |-> <<"f">>, id |-> 2]>>),
      XLBrick(NoneStr, func),
      XLBrick(NoneStr, Instance(<<[k |-> <<"f">>, v |-> func]>>)),
      XLBricks(NoneStr, <<[k |-> <<"a">>, id |-> 5]>>),
      XLBrick(NoneStr, OneNum),
      XLBricks(NoneStr, <<>>)>>
InvokeStack ==
    StackSet(StackSet(StackSet(StackSet(EmptyStack,
        UuidOf(1), XLBricksFront(NoneStr, 1, FALSE, 1)),
        UuidOf(2), XLBricksFront(NoneStr, 3, FALSE, 2)),
        <<"A", "1">>, XLBricksFront(<<"A", "1">>, 4, TRUE, 4)),
        <<"B", "1">>, XLBricksFront(<<"B", "1">>, 6, TRUE, 5))

\* the references of the two mappings
MappingRefs == {RefBlock(<<"A", "1", ":", "0">>), RefBlock(<<"B", "1", ":", "0">>)}

InvokeArgs ==
    {[f |-> f, returns |-> NumCell(1), hp |-> InvokeHeap(func), stack |-> InvokeStack,
      name |-> <<"f">>, args |-> args] :
         f \in {"xlb_run_function", "xlb_run_quantlib_function"},
         func \in Functions, args \in MappingRefs \cup {NoneBlock, Word}}

\* the words true and false in several cases, another word, and numbers
TrueWord == <<"t", "r", "u", "e">>
FalseWord == <<"f", "a", "l", "s", "e">>
Words == {TrueWord, FalseWord, <<"T", "R", "U", "E">>, <<"F", "a", "l", "s", "e">>, <<"k">>}

\* blocks of one word, of two words that are cast alike, and of a number
WordBlocks ==
    {Block("str", <<<<StrCell(w)>>>>) : w \in Words}
    \cup {Block("object", <<<<StrCell(v), StrCell(w)>>>>) :
              v, w \in Words \ {<<"k">>}}
    \cup {OneNum}

\* a leaf without a key, a leaf with a key and a composite of one leaf
QuantlibHeaps ==
    {<<XLBrick(NoneStr, b)>> : b \in WordBlocks}
    \cup {<<XLBrick(k, b)>> : k \in {TrueWord, <<"k">>}, b \in WordBlocks}
    \cup {<<XLBricks(NoneStr, <<[k |-> k, id |-> 2]>>), XLBrick(NoneStr, b)>> :
              k \in {FalseWord, <<"k">>}, b \in WordBlocks}

ToQuantlibDictArgs ==
    {[f |-> "to_quantlib_dict", hp |-> hp, aliases |-> a] :
         hp \in QuantlibHeaps, a \in BOOLEAN}

PureArgs == CropRangeArgs \cup XlbGridArgs \cup ReplaceArgs \cup XlbCreateFunctionArgs
            \cup RunArgs \cup ReplaceElementsArgs \cup InvokeArgs
            \cup ToQuantlibDictArgs

PureInit ==
    /\ front_stack = EmptyStack
    /\ heap = <<>>
    /\ uuids = 0
    /\ issued = [n \in {} |-> <<>>]
    /\ hist = [n \in {} |-> <<>>]
    /\ ephem = <<>>
    /\ arg \in PureArgs
    /\ res = NoRes
    /\ threads = <<>>

\* the call returns r
Returns(r) ==
    /\ res = NoRes
    /\ res' = r
    /\ UNCHANGED <<front_stack, heap, uuids, issued, hist, ephem, arg, threads>>

CropRange ==
    /\ arg.f = "crop_range"
    /\ Returns([f |-> "crop_range", out |-> crop_range(arg.data)])

XlbGrid ==
    /\ arg.f = "xlb_grid"
    /\ Returns([f |-> "xlb_grid",
                out |-> xlb_grid(front_stack, heap, uuids + 1, arg.data,
                                 arg.persist, arg.xlapp)])

Replace ==
    /\ arg.f = "replace"
    /\ Returns([f |-> "replace",
                out |-> replace(arg.hp, arg.self, arg.keys, arg.brick)])

XlbCreateFunction ==
    /\ arg.f = "xlb_create_function"
    /\ Returns([f |-> "xlb_create_function",
                out |-> xlb_create_function(front_stack, heap, uuids + 1, arg.data,
                                            arg.persist, arg.xlapp)])

\* the exposed function is handed the reference of the stored functions
XlbRunFunction ==
    /\ arg.f = "xlb_run_function"
    /\ Returns([f |-> "xlb_run_function",
                out |-> xlb_run_function(arg.stack, arg.hp, 3,
                                         RefBlock(bricks_full_name(arg.stack[UuidOf(1)])),
                                         arg.name, arg.args, FALSE, NoneStr)])

\* the exposed function is handed the reference of the stored object
XlbRunQuantlibFunction ==
    /\ arg.f = "xlb_run_quantlib_function"
    /\ Returns([f |-> "xlb_run_quantlib_function",
                out |-> xlb_run_quantlib_function(
                            arg.stack, arg.hp, 3,
                            RefBlock(bricks_full_name(arg.stack[UuidOf(2)])),
                            arg.name, arg.args, FALSE, NoneStr)])

\* replace_elements as decorated with XLBricksFunction(False)
ReplaceElements ==
    /\ arg.f = "replace_elements"
    /\ Returns([f |-> "replace_elements",
                out |-> XLBricksFunction(
                            replace_elements(arg.stack, arg.hp, 4, arg.bricks, arg.pairs,
                                             FALSE, NoneStr), FALSE)])

\* to_quantlib_dict of the root, the node 1
ToQuantlibDict ==
    /\ arg.f = "to_quantlib_dict"
    /\ Returns([f |-> "to_quantlib_dict",
                out |-> to_quantlib_dict(arg.hp, 1, arg.aliases)])

PureNext ==
    \/ ToQuantlibDict
    \/ ReplaceElements
    \/ XlbRunFunction
    \/ XlbRunQuantlibFunction
    \/ CropRange
    \/ XlbGrid
    \/ Replace
    \/ XlbCreateFunction

PureSpec == PureInit /\ [][PureNext]_vars

(***************************************************************************)
(* add_bricks_to_front_stack called from two threads. The table is a class *)
(* attribute shared by every thread and the function takes no lock, so the *)
(* interpreter may switch threads between the membership test, the read of *)
(* the stored counter and the store                                        *)
(***************************************************************************)
\* the threads that call back
Callers == {1, 2}

\* registrations under the name made one after the other before the two
\* callers arrive: none, or as many as give the entry a version up to this
MaxPrior == 4

\* the cell both callers register under
SharedName == <<"A", "1">>

\* the table after k registrations under SharedName, one after the other
RECURSIVE PriorStack(_)
PriorStack(k) ==
    IF k = 0 THEN EmptyStack
    ELSE add_bricks_to_front_stack(PriorStack(k - 1),
                                   XLBricksFront(SharedName, None, TRUE, k))

\* each caller has constructed its wrapper (counter 0) and enters
\* add_bricks_to_front_stack; contained is the result of the test of line 66
ThreadInit ==
    /\ \E k \in 0..(MaxPrior + 1) :
           /\ front_stack = PriorStack(k)
           /\ uuids = k + Cardinality(Callers)
           /\ threads = [t \in Callers |->
                            [pc |-> "test", contained |-> FALSE,
                             bricks |-> XLBricksFront(SharedName, None, TRUE, k + t)]]
    /\ heap = <<>>
    /\ issued = [n \in {} |-> <<>>]
    /\ hist = [n \in {} |-> <<>>]
    /\ ephem = <<>>
    /\ arg = NoArg
    /\ res = NoRes

\* container_name = bricks.bricks_name
container_name(t) == bricks_name(threads[t].bricks)

\* if container_name in XLBricksFrontStack():
Test(t) ==
    /\ threads[t].pc = "test"
    /\ threads' = [threads EXCEPT
                       ![t].contained = StackContains(front_stack, container_name(t)),
                       ![t].pc = IF StackContains(front_stack, container_name(t))
                                 THEN "read" ELSE "store"]
    /\ UNCHANGED <<front_stack, heap, uuids, issued, hist, ephem, arg, res>>

\* bricks.counter = XLBricksFrontStack()[container_name].counter + 1
Read(t) ==
    /\ threads[t].pc = "read"
    /\ threads' = [threads EXCEPT
                       ![t].bricks.counter = front_stack[container_name(t)].counter + 1,
                       ![t].pc = "store"]
    /\ UNCHANGED <<front_stack, heap, uuids, issued, hist, ephem, arg, res>>

\* XLBricksFrontStack()[container_name] = bricks
Store(t) ==
    /\ threads[t].pc = "store"
    /\ front_stack' = StackSet(front_stack, container_name(t), threads[t].bricks)
    /\ threads' = [threads EXCEPT ![t].pc = "done"]
    /\ UNCHANGED <<heap, uuids, issued, hist, ephem, arg, res>>

ThreadNext == \E t \in Callers : Test(t) \/ Read(t) \/ Store(t)

ThreadSpec == ThreadInit /\ [][ThreadNext]_vars

(***************************************************************************)
(* Properties.  A property about an operation is stated over the calls     *)
(* that can be made in the current state and their outcomes.               *)
(***************************************************************************)
\* the XLUtils.get_bricks calls made by the calls possible in the current state
GetBricksCalls == UNION {{c.o.calls[i] : i \in 1..Len(c.o.calls)} : c \in AllCalls}

\* the calls of delete_bricks_from_front_stack: the direct ones and those
\* XLUtils.get_bricks makes; w is the wrapper, pre and post the table
Retires ==
    {[w |-> c.w, pre |-> front_stack, post |-> c.o.stack] : c \in RetireCalls}
    \cup {[w |-> g.front, pre |-> g.pre, post |-> g.post] :
              g \in {x \in GetBricksCalls : x.found}}

\* the text of s before its last colon
TextBeforeLastColon(s) ==
    LET last == CHOOSE i \in 1..Len(s) : s[i] = ":" /\ \A j \in (i + 1)..Len(s) : s[j] # ":"
    IN  SubSeq(s, 1, last - 1)

\* a block of shape 1x1 whose cell is a string with a colon
IsReferenceBlock(b) ==
    /\ Len(b.cells) = 1
    /\ Len(b.cells[1]) = 1
    /\ b.cells[1][1].t = "str"
    /\ \E i \in 1..Len(b.cells[1][1].s) : b.cells[1][1].s[i] = ":"

\* an argument of an exposed call: its parameter name, its value and
\* whether it is a scalar or a block
Arg(name, val, scalar) == [name |-> name, val |-> val, scalar |-> scalar]

\* exposed calls by their required arguments, in the order of the signature
ValidatedCalls ==
    {[op |-> "xlb_brick", req |-> <<Arg("key", k, TRUE), Arg("data", d, FALSE)>>] :
         k \in CheckedScalars, d \in CheckedBlocks}
    \cup {[op |-> "xlb_lookup",
           req |-> <<Arg("bricks", d, FALSE), Arg("keys", k, TRUE)>>] :
              k \in CheckedScalars, d \in CheckedBlocks}
    \cup {[op |-> "xlb_alias",
           req |-> <<Arg("brick", d, FALSE), Arg("alias", k, TRUE)>>] :
              k \in CheckedScalars, d \in CheckedBlocks}
    \cup {[op |-> "xlb_merge",
           req |-> <<Arg("brick_1", d, FALSE), Arg("brick_2", e, FALSE)>>] :
              d \in CheckedBlocks, e \in CheckedBlocks}
    \cup {[op |-> op, req |-> <<Arg(IF op = "xlb_flatten" THEN "brick" ELSE "data",
                                    d, FALSE)>>] :
              op \in {"xlb_array", "xlb_list", "xlb_flatten"}, d \in CheckedBlocks}

\* the outcome of the call v made in the current state
Applied(v, pa) ==
    CASE v.op = "xlb_brick" ->
             xlb_brick(front_stack, heap, uuids + 1, v.req[1].val, v.req[2].val,
                       pa.persist, pa.xlapp)
      [] v.op = "xlb_lookup" ->
             xlb_lookup(front_stack, heap, uuids + 1, v.req[1].val, v.req[2].val,
                        pa.persist, pa.xlapp)
      [] v.op = "xlb_alias" ->
             xlb_alias(front_stack, heap, uuids + 1, v.req[1].val, v.req[2].val)
      [] v.op = "xlb_merge" ->
             xlb_merge(front_stack, heap, uuids + 1,
                       <<v.req[1].val, v.req[2].val, NoneBlock, NoneBlock, NoneBlock>>,
                       pa.persist, pa.xlapp)
      [] v.op = "xlb_array" ->
             xlb_array(front_stack, heap, uuids + 1, v.req[1].val, pa.persist, pa.xlapp)
      [] v.op = "xlb_list" ->
             xlb_list(front_stack, heap, uuids + 1, v.req[1].val, pa.persist, pa.xlapp)
      [] v.op = "xlb_flatten" ->
             xlb_flatten(front_stack, heap, v.req[1].val)

\* a scalar that is None, NaN, blank or 'nan'; a block that is absent, not
\* two-dimensional or without a cell
IsOffending(a) ==
    IF a.scalar
    THEN \/ a.val = NoneStr
         \/ a.val = NanFloat
         \/ \A i \in 1..Len(a.val) : a.val[i] = " "
         \/ a.val = <<"n", "a", "n">>
    ELSE \/ a.val = NoneBlock
         \/ a.val.ndim # 2
         \/ \A r \in 1..Len(a.val.cells) : Len(a.val.cells[r]) = 0

Offending(v) == {v.req[i].name : i \in {j \in 1..Len(v.req) : IsOffending(v.req[j])}}

\* C1: the versions registered under one name since the name's entry was
\* last removed are 0, 1, ..., n-1 in that order; in particular the first
\* registration under a name that is not in the table gets version 0.
C1_VersionsCountFromZero ==
    \A n \in DOMAIN issued : \A i \in 1..Len(issued[n]) : issued[n][i] = i - 1

\* a name registered twice in a row
C1_Witness == \E n \in DOMAIN issued : Len(issued[n]) = 2 /\ n \in DOMAIN front_stack

\* C2: over the whole history of the table, the versions issued for one
\* name strictly increase: none decreases and none is issued twice.
C2_VersionsNeverReissued ==
    \A n \in DOMAIN hist :
        \A i, j \in 1..Len(hist[n]) : i < j => hist[n][i] < hist[n][j]

\* C3: delete_bricks_from_front_stack(w) removes the entry under w's name
\* if and only if w.persist is false and that entry is w itself; it leaves
\* the table unchanged for a persistent w and never touches another name.
C3_RetireRemovesOnlyItself ==
    \A r \in Retires :
        LET n == bricks_name(r.w) IN
        /\ (n \in DOMAIN r.pre /\ n \notin DOMAIN r.post)
               <=> (~r.w.persist /\ n \in DOMAIN r.pre /\ r.pre[n] = r.w)
        /\ r.w.persist => r.post = r.pre
        /\ DOMAIN r.post \subseteq DOMAIN r.pre
        /\ \A m \in DOMAIN r.pre \ {n} : m \in DOMAIN r.post /\ r.post[m] = r.pre[m]

\* C4: a wrapper produced with persist=False has a fresh synthetic name and
\* version 0, and the first later ingestion of its reference obtains the
\* stored tree and leaves no entry under the name.
C4_FirstIngestionConsumes ==
    \A i \in 1..Len(ephem) :
        LET e == ephem[i] IN
        /\ e.fresh
        /\ e.ref = e.name \o <<":", "0">>
        /\ \A c \in AllCalls : \A j \in 1..Len(c.o.calls) :
               (/\ Ingests(c.o.calls[j], e.ref)
                /\ \A k \in 1..(j - 1) : ~Ingests(c.o.calls[k], e.ref))
               => /\ c.o.calls[j].node = e.front.xlbricks
                  /\ e.name \notin DOMAIN c.o.calls[j].post

\* C5: XLUtils.get_bricks treats every 1x1 block whose cell is a string with
\* a colon as a reference and never makes a Leaf of that literal string.
C5_ColonCellAlwaysReference ==
    \A g \in GetBricksCalls :
        (~g.err /\ IsReferenceBlock(g.cropped)) =>
            /\ g.isref
            /\ ~(g.leaf # NoneBlock /\ g.leaf.cells = g.cropped.cells)

\* C6: xlfunctions.delete_bricks on a reference whose name is in the table
\* removes that entry, leaves the others unchanged and raises nothing.
C6_DeleteByReferenceRemoves ==
    \A c \in DeleteBricksCalls :
        LET key == TextBeforeLastColon(c.args[1].cells[1][1].s) IN
        key \in DOMAIN front_stack =>
            /\ c.o.ret.kind # "raise"
            /\ key \notin DOMAIN c.o.stack
            /\ \A m \in DOMAIN front_stack \ {key} :
                   m \in DOMAIN c.o.stack /\ c.o.stack[m] = front_stack[m]

\* C7: the name get_bricks_front looks up is the text before the last
\* colon, and name + ':' + version of every registered wrapper resolves to
\* that wrapper.
C7_NameIsTextBeforeLastColon ==
    /\ \A g \in GetBricksCalls :
           g.isref => g.key = TextBeforeLastColon(g.cropped.cells[1][1].s)
    /\ \A n \in DOMAIN front_stack :
           LET f == get_bricks_front(front_stack,
                        RefBlock(n \o <<":">> \o ToStr(front_stack[n].counter)))
           IN  f.found /\ f.front = front_stack[n]

\* C8: a block is classified as a reference if and only if it is 1x1, its
\* cell is a string and the string has a colon; for any other block
\* get_bricks_front reports no reference and does not read the table, and
\* XLUtils.delete_bricks leaves the table alone.
C8_ReferenceClassification ==
    /\ \A g \in GetBricksCalls :
           ~g.err =>
               /\ g.isref <=> IsReferenceBlock(g.cropped)
               /\ ~IsReferenceBlock(g.cropped) => (~g.read /\ ~g.found)
    /\ \A c \in XLUtilsDeleteBricksCalls :
           ~IsReferenceBlock(c.args[1]) =>
               (c.o.ret.kind = "none" /\ c.o.stack = front_stack)

\* a two-row block with a colon string in its first cell and a 1x1 string
\* without a colon are not references, a 1x1 colon string is one and finds
\* its wrapper
C8_Witness ==
    /\ \E g \in GetBricksCalls :
           /\ ~g.err /\ ~g.isref /\ Len(g.cropped.cells) = 2
           /\ g.cropped.cells[1][1].t = "str"
           /\ Contains(g.cropped.cells[1][1].s, ":")
    /\ \E g \in GetBricksCalls :
           /\ ~g.err /\ ~g.isref /\ Size(g.cropped) = 1
           /\ g.cropped.cells[1][1].t = "str"
    /\ \E g \in GetBricksCalls : g.isref /\ g.found

\* C9: a producing function whose core function raises registers nothing:
\* every entry of the table after the call was there before, unchanged.
C9_FailedProducerRegistersNothing ==
    \A c \in ProducingCalls :
        (c.o.ret.kind = "error" /\ c.o.ret.etype # "") =>
            \A n \in DOMAIN c.o.stack :
                n \in DOMAIN front_stack /\ c.o.stack[n] = front_stack[n]

\* a producing call that raises after it has ingested a reference, with
\* other entries in the table
C9_Witness ==
    \E c \in ProducingCalls :
        /\ c.o.ret.kind = "error" /\ c.o.ret.etype # ""
        /\ Len(c.o.calls) > 0 /\ c.o.calls[1].found
        /\ c.o.stack # EmptyStack

\* C10: an exposed function that returns an error string leaves the table
\* as it was before the call.
C10_ErrorLeavesTableUnchanged ==
    \A c \in XlbCalls : c.o.ret.kind = "error" => c.o.stack = front_stack

\* C11: an exposed call with a required scalar that is missing (None, NaN,
\* blank or 'nan') or a required block that is absent, not two-dimensional
\* or empty returns a string that starts with '#XLB ERROR: ' and names an
\* offending parameter, without running the core function: nothing is
\* ingested, and the table and the value trees are as before the call.
C11_InvalidArgumentsRejected ==
    \A v \in ValidatedCalls : \A pa \in PersistArgs :
        Offending(v) # {} =>
            LET RejectedFor(o) ==
                    /\ o.ret.kind = "error"
                    /\ o.ret.text[1] = "#XLB ERROR: "
                    /\ o.ret.text[2] \in Offending(v)
                    /\ o.ret.etype = ""
                    /\ o.calls = <<>>
                    /\ o.stack = front_stack
                    /\ o.heap = heap
                    /\ ~o.made
            IN  RejectedFor(Applied(v, pa))

\* with a wrapper in the table: a lookup whose block is a live reference
\* and whose path is blank is rejected for `keys`, a block without cells
\* is rejected for `data`, and a call with two offending arguments names
\* the first
C11_Witness ==
    /\ front_stack # EmptyStack
    /\ \E t \in Live :
           Applied([op |-> "xlb_lookup",
                    req |-> <<Arg("bricks", RefBlock(t), FALSE),
                              Arg("keys", <<" ">>, TRUE)>>],
                   [persist |-> FALSE, xlapp |-> NoneStr]).ret.text[2] = "keys"
    /\ Applied([op |-> "xlb_array", req |-> <<Arg("data", EmptyBlock, FALSE)>>],
               [persist |-> FALSE, xlapp |-> NoneStr]).ret.text
           = <<"#XLB ERROR: ", "data", " cannot be empty.">>
    /\ Applied([op |-> "xlb_brick",
                req |-> <<Arg("key", NanFloat, TRUE), Arg("data", OneDim, FALSE)>>],
               [persist |-> FALSE, xlapp |-> NoneStr]).ret.text[2] = "key"

\* C12: an exposed xlb_* function never lets an exception of its core reach
\* the caller: when the core raises, the call returns '#XLB ERROR: '
\* followed by the exception's type name, ': ' and its message.
C12_ExceptionsBecomeErrorStrings ==
    \A c \in XlbCalls :
        /\ c.o.ret.kind # "raise"
        /\ (c.o.ret.kind = "error" /\ c.o.ret.etype # "") =>
               c.o.ret.text = <<"#XLB ERROR: ", c.o.ret.etype, ": ">>
                              \o str_e(c.o.ret.etype)

\* a block whose every cell is empty for its dtype
AllEmpty(b) == \A i \in 1..Rows(b) : \A j \in 1..Cols(b) : func_isnan(b.dtype, b.cells[i][j])

\* C13: crop_range applied to a block whose every cell is empty returns
\* normally, and what it returns has at least one row and one column.
C13_CropOfEmptyBlockReturns ==
    (res.f = "crop_range" /\ AllEmpty(arg.data)) =>
        /\ ~res.out.err
        /\ Rows(res.out.data) >= 1
        /\ Cols(res.out.data) >= 1

\* C14: for a block with at least one non-empty cell, cropping the cropped
\* block gives the cropped block again, and no edge row or column of it is
\* all empty.
C14_CropIdempotent ==
    (res.f = "crop_range" /\ ~AllEmpty(arg.data)) =>
        /\ ~res.out.err
        /\ crop_range(res.out.data) = res.out
        /\ ~RowAllNan(res.out.data, 1)
        /\ ~RowAllNan(res.out.data, Rows(res.out.data))
        /\ ~ColAllNan(res.out.data, 1)
        /\ ~ColAllNan(res.out.data, Cols(res.out.data))

\* a block with an empty row above, an empty row below and an empty column
\* beside its filled cell has been cropped to that cell
C14_Witness ==
    /\ res.f = "crop_range"
    /\ Rows(arg.data) = 3 /\ Cols(arg.data) = 2
    /\ RowAllNan(arg.data, 1) /\ RowAllNan(arg.data, 3) /\ ColAllNan(arg.data, 1)
    /\ ~res.out.err
    /\ Size(res.out.data) = 1

\* the rows of a grid whose first cell is not empty
KeyRows(b) == {r \in 1..Rows(b) : ~func_isnan(b.dtype, b.cells[r][1])}

\* the first key row after r, or the row after the last one
RowsEnd(b, r) ==
    IF \E q \in KeyRows(b) : q > r
    THEN CHOOSE q \in KeyRows(b) : q > r /\ \A p \in KeyRows(b) : p > r => q <= p
    ELSE Rows(b) + 1

\* the leaf that ingestion makes of the rows [r, RowsEnd) without column 0
LeafOfRows(b, r) ==
    LET Made(g) == IF g.err THEN FreeNode ELSE g.heap[g.node]
    IN  Made(get_bricks(EmptyStack, <<>>, SubBlock(b, r, RowsEnd(b, r))))

\* C15: for a grid with k >= 1 key rows i1 < ... < ik carrying distinct
\* keys, xlb_grid registers a composite with exactly k children, the j-th
\* named by the key at row ij and made from the rows [ij, i(j+1)) (the last
\* from [ik, end)) of the columns after the first.
C15_GridChildrenFollowKeyRows ==
    (/\ res.f = "xlb_grid"
     /\ KeyRows(arg.data) # {}
     /\ \A p, q \in KeyRows(arg.data) :
            p # q => arg.data.cells[p][1] # arg.data.cells[q][1]) =>
        /\ res.out.ret.kind = "ref"
        /\ res.out.reg.xlbricks # None
        /\ LET root == res.out.heap[res.out.reg.xlbricks]
           IN  /\ root.kind = "XLBricks"
               /\ Len(root.bricks) = Cardinality(KeyRows(arg.data))
               /\ \A r \in KeyRows(arg.data) :
                      LET j == Cardinality({p \in KeyRows(arg.data) : p <= r})
                      IN  /\ root.bricks[j].k = arg.data.cells[r][1].s
                          /\ res.out.heap[root.bricks[j].id] = LeafOfRows(arg.data, r)

\* C16: xlb_grid on a block whose first column has no non-empty cell returns
\* the error string of an EmptyGrid error and registers no wrapper.
C16_EmptyGridError ==
    (res.f = "xlb_grid" /\ Size(arg.data) > 0 /\ KeyRows(arg.data) = {}) =>
        /\ res.out.ret.kind = "error"
        /\ res.out.ret.etype = "EmptyGrid"
        /\ res.out.stack = front_stack
        /\ ~res.out.made

\* C17: resolving a path from a node returns the node itself or one of its
\* descendants, or fails; it never returns something that is not a node.
\* So an xlb_lookup whose block was ingested either returns an error or
\* registers a wrapper whose tree is a node reachable from the ingested one.
C17_LookupRegistersNodes ==
    \A c \in XlbLookupCalls :
        (Len(c.o.calls) = 1 /\ ~c.o.calls[1].err) =>
            \/ c.o.ret.kind = "error"
            \/ /\ c.o.made
               /\ c.o.reg.xlbricks # None
               /\ c.o.reg.xlbricks \in Reach(c.o.heap, {c.o.calls[1].node})

RECURSIVE Resolve(_, _, _)
\* the node the path leads to from `node`, None when it leads nowhere
Resolve(hp, node, path) ==
    IF Len(path) = 0 THEN node
    ELSE IF hp[node].kind = "XLBricks" /\ HasKey(hp[node].bricks, path[1])
    THEN Resolve(hp, Child(hp[node].bricks, path[1]), Tail(path))
    ELSE None

\* the errors of a path that does not resolve: a name that is absent
\* (KeyError), a name below a leaf (AttributeError) or replace's own check
NotFound == {"KeyError", "AttributeError", "ValueError"}

\* the claim C18 as stated: replace(path, newValue), for a path of at least
\* one name.  If the path resolves to a leaf, the same leaf stays at the
\* path and its payload becomes newValue's; if it resolves to a composite
\* and newValue is a composite, the parent's child under the last name
\* becomes newValue; all other nodes are unchanged.  If the path does not
\* resolve, replace fails with a not-found error and the tree is unchanged.
C18_ReplaceAtPath ==
    (res.f = "replace" /\ Len(arg.keys) > 0) =>
        LET target == Resolve(arg.hp, arg.self, arg.keys)
            parent == Resolve(arg.hp, arg.self, SubSeq(arg.keys, 1, Len(arg.keys) - 1))
        IN  /\ target = None =>
                   /\ res.out.err
                   /\ res.out.etype \in NotFound
                   /\ res.out.heap = arg.hp
            /\ (target # None /\ arg.hp[target].kind = "XLBrick") =>
                   /\ ~res.out.err
                   /\ Resolve(res.out.heap, arg.self, arg.keys) = target
                   /\ res.out.heap =
                          [arg.hp EXCEPT ![target].value = arg.hp[arg.brick].value]
            /\ (/\ target # None
                /\ arg.hp[target].kind = "XLBricks"
                /\ arg.hp[arg.brick].kind = "XLBricks") =>
                   /\ ~res.out.err
                   /\ Resolve(res.out.heap, arg.self, arg.keys) = arg.brick
                   /\ \A i \in 1..Len(arg.hp) : i # parent => res.out.heap[i] = arg.hp[i]

\* C18 (amended): replace(path, newValue), for a path of at least one name.
\* If newValue is a leaf and the path resolves to a leaf, the same leaf
\* stays at the path and its payload becomes newValue's; if newValue is a
\* composite and the path resolves to a leaf or a composite, the parent's
\* child under the last name becomes newValue, at the same position; all
\* other nodes are unchanged.  If the path does not resolve, replace fails
\* with a not-found error and the tree is unchanged.
C18_ReplaceByNewValueKind ==
    (res.f = "replace" /\ Len(arg.keys) > 0) =>
        LET target == Resolve(arg.hp, arg.self, arg.keys)
            parent == Resolve(arg.hp, arg.self, SubSeq(arg.keys, 1, Len(arg.keys) - 1))
            last == arg.keys[Len(arg.keys)]
        IN  /\ target = None =>
                   /\ res.out.err
                   /\ res.out.etype \in NotFound
                   /\ res.out.heap = arg.hp
            /\ (/\ target # None
                /\ arg.hp[target].kind = "XLBrick"
                /\ arg.hp[arg.brick].kind = "XLBrick") =>
                   /\ ~res.out.err
                   /\ Resolve(res.out.heap, arg.self, arg.keys) = target
                   /\ res.out.heap =
                          [arg.hp EXCEPT ![target].value = arg.hp[arg.brick].value]
            /\ (target # None /\ arg.hp[arg.brick].kind = "XLBricks") =>
                   /\ ~res.out.err
                   /\ Resolve(res.out.heap, arg.self, arg.keys) = arg.brick
                   /\ \A i \in 1..Len(arg.hp) : i # parent => res.out.heap[i] = arg.hp[i]
                   /\ Len(res.out.heap[parent].bricks) = Len(arg.hp[parent].bricks)
                   /\ \A j \in 1..Len(arg.hp[parent].bricks) :
                          /\ res.out.heap[parent].bricks[j].k = arg.hp[parent].bricks[j].k
                          /\ arg.hp[parent].bricks[j].k # last =>
                                 res.out.heap[parent].bricks[j] = arg.hp[parent].bricks[j]

\* a composite has been put where a leaf was
C18_Witness ==
    /\ res.f = "replace"
    /\ ~res.out.err
    /\ arg.hp[Resolve(arg.hp, arg.self, arg.keys)].kind = "XLBrick"
    /\ arg.hp[arg.brick].kind = "XLBricks"
    /\ Resolve(res.out.heap, arg.self, arg.keys) = arg.brick

\* the names the lines of a block define: f, g and os
DefinedNames(b) ==
    {<<"f">> : i \in {r \in 1..Rows(b) : b.cells[r][1] = StrCell(DefF)}}
    \cup {<<"g">> : i \in {r \in 1..Rows(b) : b.cells[r][1] = StrCell(DefG)}}
    \cup {<<"o", "s">> : i \in {r \in 1..Rows(b) : b.cells[r][1] = StrCell(ImportOs)}}

\* C19: xlb_create_function on the lines 'def f():' and '    return 42'
\* registers a composite with exactly one child, named f, whose value is a
\* function that returns 42; in general the children of the composite are
\* exactly the names the lines define.
C19_ChildrenAreDefinedNames ==
    (res.f = "xlb_create_function" /\ res.out.ret.kind = "ref") =>
        LET root == res.out.heap[res.out.reg.xlbricks]
        IN  /\ {root.bricks[i].k : i \in 1..Len(root.bricks)} = DefinedNames(arg.data)
            /\ arg.data.cells = <<<<StrCell(DefF)>>, <<StrCell(Return42)>>>> =>
                   /\ Len(root.bricks) = 1
                   /\ root.bricks[1].k = <<"f">>
                   /\ res.out.heap[root.bricks[1].id].value = Callable(NumCell(42))

\* the node id serializes to the object v
Serializes(hp, id, v) == to_dict(hp, id) = [err |-> FALSE, etype |-> "", v |-> v]

\* C20: run_function and run_quantlib_function wrap the call result: a
\* mapping becomes a composite whose child names are the mapping's keys, a
\* sequence of length N a composite with the children <name>_res_1 ..
\* <name>_res_N in order, any other result a single unnamed leaf; each child
\* holds the corresponding value, so that to_dict of the result reproduces
\* the mapping or the elements of the sequence.
C20_ResultWrapping ==
    (res.f \in {"xlb_run_function", "xlb_run_quantlib_function"}
         /\ res.out.ret.kind = "ref") =>
        LET hp == res.out.heap
            id == res.out.reg.xlbricks
            r == arg.returns
            Named(names, vals) ==
                /\ hp[id].kind = "XLBricks"
                /\ [i \in 1..Len(hp[id].bricks) |-> hp[id].bricks[i].k] = names
                /\ \A i \in 1..Len(vals) : Serializes(hp, hp[id].bricks[i].id, vals[i])
                /\ Serializes(hp, id, PyDict([i \in 1..Len(vals) |->
                                                 [k |-> names[i], v |-> vals[i]]]))
        IN  CASE r.t = "dict" ->
                     Named([i \in 1..Len(r.items) |-> r.items[i].k],
                           [i \in 1..Len(r.items) |-> r.items[i].v])
              [] r.t \in {"list", "tuple"} ->
                     Named([i \in 1..Len(r.items) |->
                               arg.name \o <<"_", "r", "e", "s", "_">> \o ToStr(i)],
                           r.items)
              [] OTHER -> hp[id] = XLBrick(NoneStr, ValueOf(r))

\* C21: xlb_run_function and xlb_run_quantlib_function, called without args
\* for a name the target does not have, return the error string of an
\* ExecutionError: '#XLB ERROR: ' followed by the category name
\* ExecutionError.
C21_MissingMemberIsExecutionError ==
    (res.f \in {"xlb_run_function", "xlb_run_quantlib_function"}
         /\ arg.name = <<"g">> /\ arg.args = NoneBlock) =>
        /\ res.out.ret.kind = "error"
        /\ res.out.ret.text[1] = _ERROR_PREFIX
        /\ res.out.ret.text[2] = "ExecutionError"

\* the nodes of the tree of the wrapper stored under the name n
TreeOf(n) ==
    IF front_stack[n].xlbricks = None THEN {}
    ELSE Reach(heap, {front_stack[n].xlbricks})

\* C22: in every reachable state no node is reachable from the roots of two
\* different wrappers of the table.
C22_ExclusiveOwnership ==
    \A n1, n2 \in DOMAIN front_stack :
        n1 # n2 => TreeOf(n1) \cap TreeOf(n2) = {}

\* the names whose wrapper the call c looked up, that wrapper being
\* persistent
IngestedPersistent(c) ==
    {n \in DOMAIN front_stack :
         /\ front_stack[n].persist
         /\ \E i \in 1..Len(c.o.calls) : c.o.calls[i].found /\ c.o.calls[i].key = n}

\* C23: a producing function that ingests the reference of a persistent
\* wrapper leaves the tree of that wrapper as it was: to_dict of the tree is
\* the same after the call as before it.
C23_IngestionLeavesTreeUnchanged ==
    \A c \in ProducingCalls :
        \A n \in IngestedPersistent(c) :
            to_dict(c.o.heap, front_stack[n].xlbricks)
                = to_dict(heap, front_stack[n].xlbricks)

RECURSIVE SubstDict(_, _, _)
\* the mapping d with the object at the path replaced by v
SubstDict(d, path, v) ==
    PyDict([i \in 1..Len(d.items) |->
               IF d.items[i].k # path[1] THEN d.items[i]
               ELSE [k |-> d.items[i].k,
                     v |-> IF Len(path) = 1 THEN v
                           ELSE SubstDict(d.items[i].v, Tail(path), v)]])

\* what serializing the ingestion of the block b gives, in the state the
\* function is called in
IngestedValue(b) ==
    LET Of(g) == to_dict(g.heap, g.node).v
    IN  Of(get_bricks(arg.stack, arg.hp, b))

RECURSIVE SubstAll(_, _)
\* the mapping d after every supplied pair has been put at its path
SubstAll(d, pairs) ==
    IF Len(pairs) = 0 THEN d
    ELSE IF pairs[1].key = NoneStr \/ pairs[1].brick = NoneBlock
    THEN SubstAll(d, Tail(pairs))
    ELSE SubstAll(SubstDict(d, PathOf(pairs[1].key), IngestedValue(pairs[1].brick)),
                  Tail(pairs))

\* the root of the tree the reference arg.bricks names, None for raw data
InputRoot ==
    LET Of(g) == IF g.call.found THEN g.node ELSE None
    IN  Of(get_bricks(arg.stack, arg.hp, arg.bricks))

\* C24: replace_elements on the reference of a composite, with pairs whose
\* paths resolve in it, registers a copy of the input tree in which the
\* node at every supplied path holds the value ingested from the pair's
\* brick and the rest is as in the input; the input tree is unchanged.
C24_ReplaceElementsPutsBrickAtPath ==
    (/\ res.f = "replace_elements"
     /\ InputRoot # None
     /\ arg.hp[InputRoot].kind = "XLBricks"
     /\ \A i \in 1..Len(arg.pairs) :
            (arg.pairs[i].key # NoneStr /\ arg.pairs[i].brick # NoneBlock) =>
                Resolve(arg.hp, InputRoot, PathOf(arg.pairs[i].key)) # None) =>
        /\ res.out.ret.kind = "ref"
        /\ res.out.reg.xlbricks # InputRoot
        /\ to_dict(res.out.heap, res.out.reg.xlbricks).v
               = SubstAll(to_dict(arg.hp, InputRoot).v, arg.pairs)
        /\ to_dict(res.out.heap, InputRoot) = to_dict(arg.hp, InputRoot)

\* the function object called, before and after the call
Target(hp) ==
    IF res.f = "xlb_run_function" THEN hp[2].value ELSE hp[3].value.cells[1][1].v

\* C25: when args is supplied, the target is first called with the
\* serialized mapping as keyword arguments and, only when that call is
\* rejected because the mapping does not fit the parameters, positionally
\* with the mapping's values; so for both functions: a mapping whose keys
\* are the parameters enters the body by the keyword call, a mapping of as
\* many values as there are parameters under other keys enters it by the
\* positional call, and the body runs at most once.
C25_KeywordThenPositional ==
    (res.f \in {"xlb_run_function", "xlb_run_quantlib_function"}
         /\ arg.args \in MappingRefs) =>
        LET kw == IngestedValue(arg.args)
            params == Target(arg.hp).params
            log == Target(res.out.heap).log
            fits == {kw.items[i].k : i \in 1..Len(kw.items)}
                        = {params[i] : i \in 1..Len(params)}
        IN  /\ Len(log) <= 1
            /\ fits => log = <<"kw">>
            /\ (~fits /\ Len(kw.items) = Len(params)) => log = <<"pos">>
            /\ (~fits /\ Len(kw.items) # Len(params)) => log = <<>>

\* the word in lower case
LowerWord(w) == [i \in 1..Len(w) |-> Lower(w[i])]

\* what the claim C26 asks of a cell: the boolean the word names
Coerced(x) ==
    IF x.t = "str" /\ LowerWord(x.s) = TrueWord THEN BoolCell(TRUE)
    ELSE IF x.t = "str" /\ LowerWord(x.s) = FalseWord THEN BoolCell(FALSE)
    ELSE x

\* C26: to_quantlib_dict gives, for a leaf without a key that holds a
\* single cell, the boolean true for a string equal to 'true' and the
\* boolean false for a string equal to 'false', case ignored; and the call
\* leaves the values of the tree as they were.
C26_TrueFalseBecomeBooleans ==
    (res.f = "to_quantlib_dict" /\ ~res.out.err) =>
        /\ res.out.heap = arg.hp
        /\ (arg.hp[1].kind = "XLBrick" /\ arg.hp[1].key = NoneStr
                /\ Size(arg.hp[1].value) = 1) =>
               res.out.v = Coerced(arg.hp[1].value.cells[1][1])

\* the calls of xlb_merge whose inputs each resolve to a composite: every
\* brick passed is ingested and gives an XLBricks object
CompositeMerges ==
    {c \in XlbMergeCalls :
        /\ Len(c.o.calls) = Cardinality({i \in 1..Len(c.args) : c.args[i] # NoneBlock})
        /\ \A i \in 1..Len(c.o.calls) :
               /\ ~c.o.calls[i].err
               /\ c.o.calls[i].node # None
               /\ c.o.heap[c.o.calls[i].node].kind = "XLBricks"}

\* the child names of the i-th input of the merge c
InputNames(c, i) ==
    LET With(bricks) == {bricks[j].k : j \in 1..Len(bricks)}
    IN  With(c.o.heap[c.o.calls[i].node].bricks)

C28_ConcurrentRegistrationsDistinct ==
    \A t, u \in DOMAIN threads :
        (/\ t # u
         /\ threads[t].pc = "done"
         /\ threads[u].pc = "done"
         /\ container_name(t) = container_name(u)) =>
            /\ threads[t].bricks.counter # threads[u].bricks.counter
            /\ threads[t].bricks.counter > threads[u].bricks.counter =>
                   front_stack[container_name(t)] = threads[t].bricks

\* the version parts tried on a name: the versions up to one past the
\* wrapper's own, so the current one, every superseded one and one that was
\* never issued
VersionsTried(w) == 0..(w.counter + 1)

\* C29: reference resolution ignores the version part: for every name in
\* the table and every version v, current, superseded or never issued, the
\* reference name + ':' + v resolves to the wrapper the table holds under
\* the name; and no call fails to obtain the wrapper of a reference whose
\* name is in the table, whatever its version part.
C29_VersionPartIgnored ==
    /\ \A n \in DOMAIN front_stack : \A v \in VersionsTried(front_stack[n]) :
           LET f == get_bricks_front(front_stack, RefBlock(n \o <<":">> \o ToStr(v)))
           IN  f.found /\ f.front = front_stack[n]
    /\ \A g \in GetBricksCalls :
           (g.isref /\ g.key \in DOMAIN g.pre) =>
               (~g.err /\ g.found /\ g.front = g.pre[g.key])

\* XLBricksFrontStack.to_dict on the table `stack`: res_dict[key] =
\* bricks_front.xlbricks.to_dict() for every entry; it raises what the
\* first failing entry raises
export(stack, hp) ==
    LET Failing == {n \in DOMAIN stack : to_dict(hp, stack[n].xlbricks).err}
    IN  IF Failing # {}
        THEN [err |-> TRUE,
              etype |-> to_dict(hp, stack[CHOOSE n \in Failing : TRUE].xlbricks).etype,
              res_dict |-> [n \in {} |-> NoneCell]]
        ELSE [err |-> FALSE, etype |-> "",
              res_dict |-> [n \in DOMAIN stack |-> to_dict(hp, stack[n].xlbricks).v]]

\* the object id is a leaf, or a composite whose children are such nodes
IsValueTree(hp, id) ==
    /\ id # None
    /\ \A i \in Reach(hp, {id}) :
           /\ hp[i].kind \in {"XLBrick", "XLBricks"}
           /\ hp[i].kind = "XLBricks" =>
                  /\ hp[i].value = NoneBlock
                  /\ \A j \in 1..Len(hp[i].bricks) : hp[i].bricks[j].id # None

\* C30: in every reachable state every entry of the table is stored under
\* the name of its wrapper and its root is a node of a value tree, a leaf or
\* a composite of such nodes; so XLBricksFrontStack.to_dict succeeds and
\* returns one serialized entry for each name of the table.
C30_TableEntriesAreTrees ==
    /\ \A n \in DOMAIN front_stack :
           /\ bricks_name(front_stack[n]) = n
           /\ IsValueTree(heap, front_stack[n].xlbricks)
    /\ ~export(front_stack, heap).err
    /\ DOMAIN export(front_stack, heap).res_dict = DOMAIN front_stack

====
